---- MODULE Spec2Model ----
\* Acquisition / processing / saving / decision pipeline of InstrumentControl:
\*   ATS::AcquireDataMultithreadedContinuous   (src/src/instruments/ATS.cpp)
\*   processingThread, decisionMakingThread, saveDataToBin
\*                                             (src/src/util/multiThreading.cpp)
\* Every thread is a small program counter machine; the two mutexes
\* (sharedData.mutex, syncFlags.mutex) are explicit variables, so a state shows
\* which thread holds which lock.  A condition-variable wait with a predicate
\* is modelled by what std::condition_variable::wait(lock, pred) guarantees:
\* the thread leaves the wait only holding the lock and with pred true.
EXTENDS Integers, Sequences, FiniteSets, TLC

\* ------------------------------------------------------------------ bounds
\* Largest fixed horizon (acquisitionParams.buffersPerAcquisition) explored.
MaxBuffers == 4

\* Number of processed buffers after which decisionMakingThread stops the
\* scan.  multiThreading.cpp:87 uses 50; the model scales the threshold down
\* so that the stop is reached within MaxBuffers buffers.
DecisionStopCount == 2

\* Largest number of output files whose open fails during one acquisition.
MaxOpenFailures == 1

\* ------------------------------------------------------- program constants
\* Number of DMA buffers in IoBufferArray (declared in the missing decs.hpp;
\* the specification requires at least 2).
BUFFER_COUNT == 2

NoThread == "none"
NoBuffer == [kind |-> "none", id |-> 0]
NoValue == <<>>

\* Return codes of AlazarWaitAsyncBufferComplete that the code distinguishes.
WaitFailureCodes ==
    {"ApiWaitTimeout", "ApiBufferOverflow", "ApiBufferNotReady",
     "ApiDmaInProgress", "ApiFailed"}

WaitReturnCodes == {"ApiSuccess"} \cup WaitFailureCodes

VARIABLES
    \* ---- shared coordination objects
    dataMutex,            \* holder of sharedData.mutex
    flagMutex,            \* holder of syncFlags.mutex
    pauseDataCollection,  \* syncFlags.pauseDataCollection
    acquisitionComplete,  \* syncFlags.acquisitionComplete
    dataQueue,            \* sharedData.dataQueue
    backupDataQueue,      \* sharedData.backupDataQueue
    dataSavingQueue,      \* sharedData.dataSavingQueue
    processedDataQueue,   \* sharedData.processedDataQueue
    \* ---- acquisition stage
    buffersPerAcquisition,\* acquisitionParams.buffersPerAcquisition
    acqPc,                \* position in AcquireDataMultithreadedContinuous
    acqExit,              \* why the stage left ("none" while running)
    bufferIndex,          \* local bufferIndex
    success,              \* local success
    waitResult,           \* return code of the last AlazarWaitAsyncBufferComplete
    buffersCompleted,     \* local buffersCompleted
    acqBuffer,            \* complexOutput being converted / pushed
    ioBuffers,            \* indices i with a live IoBufferArray[i]
    posted,               \* the board's list of available buffers (FIFO)
    board,                \* "idle" | "primed" | "capturing"
    dmaAborted,           \* AlazarAbortAsyncRead has been called
    \* ---- processing stage
    procPc, complexOutput, procData, numProcessed,
    \* ---- saving stage
    savePc, rawData, numSaved, files,
    \* ---- decision stage
    decPc, processedOutput, buffersProcessed,
    \* ---- observations (history of what the code did)
    waitOk,               \* number of buffer waits that returned ApiSuccess
    procPopped,           \* ids popped from dataQueue, in pop order
    savePopped,           \* ids popped from dataSavingQueue, in pop order
    decPopped,            \* buffers popped from processedDataQueue
    fftDone,              \* ids on which processDataFFT has run
    pushedAfterPause,     \* pushes onto dataQueue made while pause was set
    pauseObserved,        \* the loop's pause test has run with the flag set
    lateDataPush,         \* a push onto dataQueue after processingThread exited
    lateSavePush,         \* ... onto dataSavingQueue after saveDataToBin exited
    lateProcessedPush,    \* ... onto processedDataQueue after the decision exit
    \* ---- single calls of the configuration, conversion, file and decision
    \*      functions, outside a running acquisition
    fnPc,                 \* which call is in progress and how far it got
    fnIn,                 \* the arguments of the call
    fnOut                 \* what the call has produced so far

sharedVars == <<dataMutex, flagMutex, pauseDataCollection, acquisitionComplete,
                dataQueue, backupDataQueue, dataSavingQueue, processedDataQueue>>
acqVars    == <<buffersPerAcquisition, acqPc, acqExit, bufferIndex, success,
                waitResult, buffersCompleted, acqBuffer, ioBuffers, posted, board,
                dmaAborted>>
procVars   == <<procPc, complexOutput, procData, numProcessed>>
saveVars   == <<savePc, rawData, numSaved, files>>
decVars    == <<decPc, processedOutput, buffersProcessed>>
obsVars    == <<waitOk, procPopped, savePopped, decPopped, fftDone,
                pushedAfterPause, pauseObserved, lateDataPush, lateSavePush,
                lateProcessedPush>>

pipelineVars == <<sharedVars, acqVars, procVars, saveVars, decVars, obsVars>>
fnVars == <<fnPc, fnIn, fnOut>>

vars == <<pipelineVars, fnVars>>

\* ----------------------------------------------------------------- helpers
\* std::queue operations.
QueuePushFront(q, x) == <<x>> \o q
QueuePushIfEmpty(q, x) == IF Len(q) >= 1 THEN q ELSE Append(q, x)
QueuePush(q, x) == Append(q, x)
QueueFront(q)   == Head(q)
QueuePop(q)     == Tail(q)

\* lock.unlock() right after the pop, before the work on the popped buffer.
UnlockSkipped(holder) == holder
Unlock(holder) == NoThread

\* The value written by syncFlags.acquisitionComplete = true at the end of
\* the acquisition (line 920), whatever the local success is.
CompleteFlagFromSuccess(ok) == ok
CompleteFlag(ok) == TRUE

\* std::lock_guard<std::mutex> lock(sharedData.mutex) before the push onto
\* dataQueue: the mutex now belongs to the thread.
LockOmitted(thread) == NoThread
LockGuard(thread) == thread

\* The voltage buffer built from the k-th filled DMA buffer, and its memcpy.
RawBuffer(k)    == [kind |-> "raw", id |-> k]
BackupBuffer(b) == [kind |-> "backup", id |-> b.id]

\* processDataFFT: a freshly allocated buffer holding the DFT of sampleData.
FFTInPlace(sampleData) == sampleData
processDataFFT(sampleData) == [kind |-> "fft", id |-> sampleData.id]

\* The test of the wait's return code that decides whether the buffer is used.
OnlyTimeoutFails(rc) == rc # "ApiWaitTimeout"
WaitSucceeded(rc) == rc = "ApiSuccess"

\* The pause test of the acquisition loop.
PauseIgnored == FALSE
PauseRequested == pauseDataCollection

\* The loop condition buffersCompleted < buffersPerAcquisition (line 748).
WithinHorizonInclusive(completed, horizon) == completed <= horizon
WithinHorizon(completed, horizon) == completed < horizon

\* bufferIndex = buffersCompleted % BUFFER_COUNT (line 770).
RingIndexFixed(n) == 0
RingIndex(n) == n % BUFFER_COUNT

\* The board's list of available buffers once buffer b has been handed back
\* to the host.
HandedBack(list, b) == SelectSeq(list, LAMBDA x : x # b)

Ids(q) == [i \in 1..Len(q) |-> q[i].id]
UpTo(n) == [i \in 1..n |-> i]

\* --------------------------------------------------------------------- Init
PipelineStart ==
    /\ dataMutex = NoThread /\ flagMutex = NoThread
    /\ pauseDataCollection = FALSE /\ acquisitionComplete = FALSE
    /\ dataQueue = <<>> /\ backupDataQueue = <<>>
    /\ dataSavingQueue = <<>> /\ processedDataQueue = <<>>
    /\ acqPc = "BeforeAsyncRead" /\ acqExit = "none"
    /\ bufferIndex = 0 /\ success = TRUE /\ waitResult = "ApiSuccess"
    /\ buffersCompleted = 0 /\ acqBuffer = NoBuffer
    /\ ioBuffers = {} /\ posted = <<>> /\ board = "idle" /\ dmaAborted = FALSE
    /\ procPc = "Lock" /\ complexOutput = NoBuffer /\ procData = NoBuffer
    /\ numProcessed = 0
    /\ savePc = "Lock" /\ rawData = NoBuffer /\ numSaved = 0 /\ files = <<>>
    /\ decPc = "Lock" /\ processedOutput = NoBuffer /\ buffersProcessed = 0
    /\ waitOk = 0 /\ procPopped = <<>> /\ savePopped = <<>> /\ decPopped = <<>>
    /\ fftDone = {} /\ pushedAfterPause = 0 /\ pauseObserved = FALSE
    /\ lateDataPush = FALSE /\ lateSavePush = FALSE
    /\ lateProcessedPush = FALSE

Init ==
    /\ PipelineStart
    /\ buffersPerAcquisition \in 1..MaxBuffers
    /\ fnPc = "pipeline" /\ fnIn = NoValue /\ fnOut = NoValue

\* The threads before they are started, for the specifications of single
\* function calls.
PipelineIdle ==
    /\ PipelineStart
    /\ buffersPerAcquisition = 1

\* ---------------------------------------------------- acquisition stage
AcqOnly == UNCHANGED <<procVars, saveVars, decVars, fnVars>>

\* A throw inside the try block: control goes to the catch clause.
Throw == /\ acqPc' = "Catch"
         /\ acqExit' = "exception"

\* AlazarBeforeAsyncRead (lines 681-692).
AcqBeforeAsyncRead ==
    /\ acqPc = "BeforeAsyncRead"
    /\ \E ok \in BOOLEAN :
         IF ok THEN /\ board' = "primed"
                    /\ acqPc' = "CreateBuffers"
                    /\ bufferIndex' = 0
                    /\ UNCHANGED acqExit
               ELSE /\ Throw
                    /\ UNCHANGED <<board, bufferIndex>>
    /\ UNCHANGED <<buffersPerAcquisition, success, waitResult, buffersCompleted,
                   acqBuffer, ioBuffers, posted, dmaAborted>>
    /\ UNCHANGED <<sharedVars, obsVars>> /\ AcqOnly

\* One iteration of the allocation loop, or its exit (lines 696-705).
AcqCreateBuffers ==
    /\ acqPc = "CreateBuffers"
    /\ IF bufferIndex < BUFFER_COUNT
       THEN \E ok \in BOOLEAN :
              IF ok THEN /\ ioBuffers' = ioBuffers \cup {bufferIndex}
                         /\ bufferIndex' = bufferIndex + 1
                         /\ UNCHANGED <<acqPc, acqExit, success>>
                    ELSE /\ Throw
                         /\ UNCHANGED <<ioBuffers, bufferIndex, success>>
       ELSE /\ success' = TRUE
            /\ bufferIndex' = 0
            /\ acqPc' = "PostBuffers"
            /\ UNCHANGED <<ioBuffers, acqExit>>
    /\ UNCHANGED <<buffersPerAcquisition, waitResult, buffersCompleted, acqBuffer,
                   posted, board, dmaAborted>>
    /\ UNCHANGED <<sharedVars, obsVars>> /\ AcqOnly

\* One iteration of the initial posting loop, or its exit (lines 706-723).
AcqPostBuffers ==
    /\ acqPc = "PostBuffers"
    /\ IF bufferIndex < BUFFER_COUNT /\ success
       THEN \E outcome \in {"ok", "resetFailed", "postFailed"} :
              CASE outcome = "ok" ->
                     /\ posted' = Append(posted, bufferIndex)
                     /\ bufferIndex' = bufferIndex + 1
                     /\ UNCHANGED <<acqPc, acqExit, success>>
                [] outcome = "resetFailed" ->
                     /\ success' = FALSE
                     /\ bufferIndex' = bufferIndex + 1
                     /\ UNCHANGED <<acqPc, acqExit, posted>>
                [] outcome = "postFailed" ->
                     /\ Throw
                     /\ UNCHANGED <<posted, bufferIndex, success>>
       ELSE /\ acqPc' = "StartCapture"
            /\ UNCHANGED <<posted, bufferIndex, success, acqExit>>
    /\ UNCHANGED <<buffersPerAcquisition, waitResult, buffersCompleted, acqBuffer,
                   ioBuffers, board, dmaAborted>>
    /\ UNCHANGED <<sharedVars, obsVars>> /\ AcqOnly

\* AlazarStartCapture, skipped when the posting loop failed (lines 727-737).
AcqStartCapture ==
    /\ acqPc = "StartCapture"
    /\ IF success
       THEN \E ok \in BOOLEAN :
              IF ok THEN /\ board' = "capturing"
                         /\ acqPc' = "LoopTest"
                         /\ UNCHANGED acqExit
                    ELSE /\ Throw
                         /\ UNCHANGED board
       ELSE /\ acqPc' = "Complete"
            /\ acqExit' = "postFailed"
            /\ UNCHANGED board
    /\ UNCHANGED <<buffersPerAcquisition, bufferIndex, success, waitResult,
                   buffersCompleted, acqBuffer, ioBuffers, posted, dmaAborted>>
    /\ UNCHANGED <<sharedVars, obsVars>> /\ AcqOnly

\* The while condition and the lock_guard on syncFlags.mutex (lines 748-751).
AcqLoopTest ==
    /\ acqPc = "LoopTest"
    /\ IF WithinHorizon(buffersCompleted, buffersPerAcquisition)
       THEN /\ flagMutex = NoThread
            /\ flagMutex' = "acq"
            /\ acqPc' = "CheckPause"
            /\ UNCHANGED acqExit
       ELSE /\ acqPc' = "Complete"
            /\ acqExit' = "horizon"
            /\ UNCHANGED flagMutex
    /\ UNCHANGED <<buffersPerAcquisition, bufferIndex, success, waitResult,
                   buffersCompleted, acqBuffer, ioBuffers, posted, board,
                   dmaAborted>>
    /\ UNCHANGED <<dataMutex, pauseDataCollection, acquisitionComplete,
                   dataQueue, backupDataQueue, dataSavingQueue,
                   processedDataQueue>>
    /\ UNCHANGED obsVars /\ AcqOnly

\* The pause test under the lock (lines 752-756).
AcqCheckPause ==
    /\ acqPc = "CheckPause"
    /\ flagMutex = "acq"
    /\ flagMutex' = NoThread
    /\ pauseObserved' = (pauseObserved \/ pauseDataCollection)
    /\ IF PauseRequested
       THEN /\ acqPc' = "Complete"
            /\ acqExit' = "pause"
       ELSE /\ acqPc' = "ForceTrigger"
            /\ UNCHANGED acqExit
    /\ UNCHANGED <<buffersPerAcquisition, bufferIndex, success, waitResult,
                   buffersCompleted, acqBuffer, ioBuffers, posted, board,
                   dmaAborted>>
    /\ UNCHANGED <<dataMutex, pauseDataCollection, acquisitionComplete,
                   dataQueue, backupDataQueue, dataSavingQueue,
                   processedDataQueue>>
    /\ UNCHANGED <<waitOk, procPopped, savePopped, decPopped, fftDone,
                   pushedAfterPause, lateDataPush, lateSavePush,
                   lateProcessedPush>>
    /\ AcqOnly

\* AlazarForceTrigger (lines 760-763).
AcqForceTrigger ==
    /\ acqPc = "ForceTrigger"
    /\ \E ok \in BOOLEAN :
         IF ok THEN /\ acqPc' = "Wait"
                    /\ UNCHANGED acqExit
               ELSE Throw
    /\ UNCHANGED <<buffersPerAcquisition, bufferIndex, success, waitResult,
                   buffersCompleted, acqBuffer, ioBuffers, posted, board,
                   dmaAborted>>
    /\ UNCHANGED <<sharedVars, obsVars>> /\ AcqOnly

\* AlazarWaitAsyncBufferComplete on IoBufferArray[buffersCompleted %
\* BUFFER_COUNT] and the branch on its return code (lines 766-780, 821-847,
\* 852, 871-873).  A failed wait clears success, which skips the re-post and
\* leaves the loop.
AcqWait ==
    /\ acqPc = "Wait"
    /\ bufferIndex' = RingIndex(buffersCompleted)
    /\ \E rc \in WaitReturnCodes :
         /\ waitResult' = rc
         /\ IF WaitSucceeded(rc)
            THEN /\ acqPc' = "Convert"
                 /\ posted' = HandedBack(posted, RingIndex(buffersCompleted))
                 /\ UNCHANGED <<success, acqExit>>
            ELSE /\ success' = FALSE
                 /\ acqPc' = "Complete"
                 /\ acqExit' = "waitFailed"
                 /\ UNCHANGED posted
         /\ waitOk' = IF rc = "ApiSuccess" THEN waitOk + 1 ELSE waitOk
    /\ UNCHANGED <<buffersPerAcquisition, buffersCompleted, acqBuffer,
                   ioBuffers, board, dmaAborted>>
    /\ UNCHANGED sharedVars
    /\ UNCHANGED <<procPopped, savePopped, decPopped, fftDone,
                   pushedAfterPause, pauseObserved, lateDataPush, lateSavePush,
                   lateProcessedPush>>
    /\ AcqOnly

\* Conversion of the filled buffer to complex voltages (lines 782-800).
AcqConvert ==
    /\ acqPc = "Convert"
    /\ acqBuffer' = RawBuffer(buffersCompleted + 1)
    /\ acqPc' = "PushLock"
    /\ UNCHANGED <<buffersPerAcquisition, acqExit, bufferIndex, success,
                   waitResult, buffersCompleted, ioBuffers, posted, board,
                   dmaAborted>>
    /\ UNCHANGED <<sharedVars, obsVars>> /\ AcqOnly

\* lock_guard on sharedData.mutex (line 804).
AcqPushLock ==
    /\ acqPc = "PushLock"
    /\ dataMutex = NoThread
    /\ dataMutex' = LockGuard("acq")
    /\ acqPc' = "Push"
    /\ UNCHANGED <<buffersPerAcquisition, acqExit, bufferIndex, success,
                   waitResult, buffersCompleted, acqBuffer, ioBuffers, posted,
                   board, dmaAborted>>
    /\ UNCHANGED <<flagMutex, pauseDataCollection, acquisitionComplete,
                   dataQueue, backupDataQueue, dataSavingQueue,
                   processedDataQueue>>
    /\ UNCHANGED obsVars /\ AcqOnly

\* The two pushes, the unlock, notify_one and the counters (lines 805-814).
AcqPush ==
    /\ acqPc = "Push"
    /\ dataMutex = "acq"
    /\ dataQueue' = QueuePush(dataQueue, acqBuffer)
    /\ backupDataQueue' = QueuePush(backupDataQueue, BackupBuffer(acqBuffer))
    /\ dataMutex' = NoThread
    /\ acqBuffer' = NoBuffer
    /\ buffersCompleted' = buffersCompleted + 1
    /\ acqPc' = "Repost"
    /\ pushedAfterPause' = IF pauseDataCollection THEN pushedAfterPause + 1
                           ELSE pushedAfterPause
    /\ lateDataPush' = (lateDataPush \/ procPc = "Done")
    /\ UNCHANGED <<buffersPerAcquisition, acqExit, bufferIndex, success,
                   waitResult, ioBuffers, posted, board, dmaAborted>>
    /\ UNCHANGED <<flagMutex, pauseDataCollection, acquisitionComplete,
                   dataSavingQueue, processedDataQueue>>
    /\ UNCHANGED <<waitOk, procPopped, savePopped, decPopped, fftDone,
                   pauseObserved, lateSavePush, lateProcessedPush>>
    /\ AcqOnly

\* ResetIoBuffer / AlazarPostAsyncBuffer of the buffer just emptied, the
\* break on failure and the _kbhit() test (lines 852-879).
AcqRepost ==
    /\ acqPc = "Repost"
    /\ \E outcome \in {"ok", "keyPressed", "resetFailed", "postFailed"} :
         CASE outcome = "ok" ->
                /\ posted' = Append(posted, bufferIndex)
                /\ acqPc' = "LoopTest"
                /\ UNCHANGED <<success, acqExit>>
           [] outcome = "keyPressed" ->
                /\ posted' = Append(posted, bufferIndex)
                /\ acqPc' = "Complete"
                /\ acqExit' = "keyPressed"
                /\ UNCHANGED success
           [] outcome \in {"resetFailed", "postFailed"} ->
                /\ success' = FALSE
                /\ acqPc' = "Complete"
                /\ acqExit' = "repostFailed"
                /\ UNCHANGED posted
    /\ UNCHANGED <<buffersPerAcquisition, bufferIndex, waitResult,
                   buffersCompleted, acqBuffer, ioBuffers, board, dmaAborted>>
    /\ UNCHANGED <<sharedVars, obsVars>> /\ AcqOnly

\* lock_guard on syncFlags.mutex before the completion flag (lines 918-919).
AcqComplete ==
    /\ acqPc = "Complete"
    /\ flagMutex = NoThread
    /\ flagMutex' = "acq"
    /\ acqPc' = "SetComplete"
    /\ UNCHANGED <<buffersPerAcquisition, acqExit, bufferIndex, success,
                   waitResult, buffersCompleted, acqBuffer, ioBuffers, posted,
                   board, dmaAborted>>
    /\ UNCHANGED <<dataMutex, pauseDataCollection, acquisitionComplete,
                   dataQueue, backupDataQueue, dataSavingQueue,
                   processedDataQueue>>
    /\ UNCHANGED obsVars /\ AcqOnly

\* syncFlags.acquisitionComplete = true (lines 920-921).
AcqSetComplete ==
    /\ acqPc = "SetComplete"
    /\ flagMutex = "acq"
    /\ acquisitionComplete' = CompleteFlag(success)
    /\ flagMutex' = NoThread
    /\ acqPc' = "Abort"
    /\ UNCHANGED <<buffersPerAcquisition, acqExit, bufferIndex, success,
                   waitResult, buffersCompleted, acqBuffer, ioBuffers, posted,
                   board, dmaAborted>>
    /\ UNCHANGED <<dataMutex, pauseDataCollection, dataQueue, backupDataQueue,
                   dataSavingQueue, processedDataQueue>>
    /\ UNCHANGED obsVars /\ AcqOnly

\* AlazarAbortAsyncRead; its failure only clears success (lines 925-929).
AcqAbort ==
    /\ acqPc = "Abort"
    /\ dmaAborted' = TRUE
    /\ \E ok \in BOOLEAN : success' = (success /\ ok)
    /\ acqPc' = "Destroy"
    /\ UNCHANGED <<buffersPerAcquisition, acqExit, bufferIndex, waitResult,
                   buffersCompleted, acqBuffer, ioBuffers, posted, board>>
    /\ UNCHANGED <<sharedVars, obsVars>> /\ AcqOnly

\* DestroyIoBuffer on every non-NULL entry, then return (lines 933-938).
AcqDestroy ==
    /\ acqPc = "Destroy"
    /\ ioBuffers' = {}
    /\ bufferIndex' = BUFFER_COUNT
    /\ acqPc' = "Done"
    /\ UNCHANGED <<buffersPerAcquisition, acqExit, success, waitResult,
                   buffersCompleted, acqBuffer, posted, board, dmaAborted>>
    /\ UNCHANGED <<sharedVars, obsVars>> /\ AcqOnly

\* The catch clause: two prints, then the function returns (lines 941-946).
AcqCatch ==
    /\ acqPc = "Catch"
    /\ acqPc' = "Done"
    /\ UNCHANGED <<buffersPerAcquisition, acqExit, bufferIndex, success,
                   waitResult, buffersCompleted, acqBuffer, ioBuffers, posted,
                   board, dmaAborted>>
    /\ UNCHANGED <<sharedVars, obsVars>> /\ AcqOnly

Acquisition ==
    \/ AcqBeforeAsyncRead \/ AcqCreateBuffers \/ AcqPostBuffers
    \/ AcqStartCapture \/ AcqLoopTest \/ AcqCheckPause \/ AcqForceTrigger
    \/ AcqWait \/ AcqConvert \/ AcqPushLock \/ AcqPush \/ AcqRepost
    \/ AcqComplete \/ AcqSetComplete \/ AcqAbort \/ AcqDestroy \/ AcqCatch

\* ------------------------------------------------------ processing stage
ProcOnly == UNCHANGED <<acqVars, saveVars, decVars, fnVars>>

\* unique_lock on sharedData.mutex and dataReadyCondition.wait with the
\* predicate !dataQueue.empty(): with data queued the thread goes on holding
\* the lock, otherwise it releases the lock and blocks (lines 16-19).
ProcLock ==
    /\ procPc = "Lock"
    /\ dataMutex = NoThread
    /\ IF dataQueue # <<>>
       THEN /\ dataMutex' = "proc"
            /\ procPc' = "Inner"
       ELSE /\ procPc' = "Blocked"
            /\ UNCHANGED dataMutex
    /\ UNCHANGED <<complexOutput, procData, numProcessed>>
    /\ UNCHANGED <<flagMutex, pauseDataCollection, acquisitionComplete,
                   dataQueue, backupDataQueue, dataSavingQueue,
                   processedDataQueue>>
    /\ UNCHANGED obsVars /\ ProcOnly

\* The blocked wait returns: the predicate holds and the lock is re-acquired.
ProcWake ==
    /\ procPc = "Blocked"
    /\ dataQueue # <<>>
    /\ dataMutex = NoThread
    /\ dataMutex' = "proc"
    /\ procPc' = "Inner"
    /\ UNCHANGED <<complexOutput, procData, numProcessed>>
    /\ UNCHANGED <<flagMutex, pauseDataCollection, acquisitionComplete,
                   dataQueue, backupDataQueue, dataSavingQueue,
                   processedDataQueue>>
    /\ UNCHANGED obsVars /\ ProcOnly

\* front(), pop() and unlock() of the inner loop (lines 23-27).
ProcPop ==
    /\ procPc = "Inner"
    /\ dataMutex = "proc"
    /\ dataQueue # <<>>
    /\ complexOutput' = QueueFront(dataQueue)
    /\ dataQueue' = QueuePop(dataQueue)
    /\ dataMutex' = Unlock(dataMutex)
    /\ procPc' = "FFT"
    /\ procPopped' = Append(procPopped, QueueFront(dataQueue).id)
    /\ UNCHANGED <<procData, numProcessed>>
    /\ UNCHANGED <<flagMutex, pauseDataCollection, acquisitionComplete,
                   backupDataQueue, dataSavingQueue, processedDataQueue>>
    /\ UNCHANGED <<waitOk, savePopped, decPopped, fftDone, pushedAfterPause,
                   pauseObserved, lateDataPush, lateSavePush,
                   lateProcessedPush>>
    /\ ProcOnly

\* processDataFFT and numProcessed++ with the lock released (lines 30-31).
ProcFFT ==
    /\ procPc = "FFT"
    /\ procData' = processDataFFT(complexOutput)
    /\ numProcessed' = numProcessed + 1
    /\ fftDone' = fftDone \cup {complexOutput.id}
    /\ procPc' = "PushLock"
    /\ UNCHANGED complexOutput
    /\ UNCHANGED sharedVars
    /\ UNCHANGED <<waitOk, procPopped, savePopped, decPopped,
                   pushedAfterPause, pauseObserved, lateDataPush, lateSavePush,
                   lateProcessedPush>>
    /\ ProcOnly

\* lock_guard on sharedData.mutex (line 36).
ProcPushLock ==
    /\ procPc = "PushLock"
    /\ dataMutex = NoThread
    /\ dataMutex' = "proc"
    /\ procPc' = "Push"
    /\ UNCHANGED <<complexOutput, procData, numProcessed>>
    /\ UNCHANGED <<flagMutex, pauseDataCollection, acquisitionComplete,
                   dataQueue, backupDataQueue, dataSavingQueue,
                   processedDataQueue>>
    /\ UNCHANGED obsVars /\ ProcOnly

\* The two pushes, the unlock and the two notify_one calls (lines 37-41).
ProcPush ==
    /\ procPc = "Push"
    /\ dataMutex = "proc"
    /\ dataSavingQueue' = QueuePush(dataSavingQueue, complexOutput)
    /\ processedDataQueue' = QueuePush(processedDataQueue, procData)
    /\ dataMutex' = NoThread
    /\ complexOutput' = NoBuffer
    /\ procData' = NoBuffer
    /\ procPc' = "Relock"
    /\ lateSavePush' = (lateSavePush \/ savePc = "Done")
    /\ lateProcessedPush' = (lateProcessedPush \/ decPc = "Done")
    /\ UNCHANGED numProcessed
    /\ UNCHANGED <<flagMutex, pauseDataCollection, acquisitionComplete,
                   dataQueue, backupDataQueue>>
    /\ UNCHANGED <<waitOk, procPopped, savePopped, decPopped, fftDone,
                   pushedAfterPause, pauseObserved, lateDataPush>>
    /\ ProcOnly

\* lock.lock() before the inner loop tests the queue again (line 43).
ProcRelock ==
    /\ procPc = "Relock"
    /\ dataMutex = NoThread
    /\ dataMutex' = "proc"
    /\ procPc' = "Inner"
    /\ UNCHANGED <<complexOutput, procData, numProcessed>>
    /\ UNCHANGED <<flagMutex, pauseDataCollection, acquisitionComplete,
                   dataQueue, backupDataQueue, dataSavingQueue,
                   processedDataQueue>>
    /\ UNCHANGED obsVars /\ ProcOnly

\* The inner loop ends on an empty queue; lock_guard on syncFlags.mutex while
\* sharedData.mutex is still held (lines 23, 47-48).
ProcCheckLock ==
    /\ procPc = "Inner"
    /\ dataMutex = "proc"
    /\ dataQueue = <<>>
    /\ flagMutex = NoThread
    /\ flagMutex' = "proc"
    /\ procPc' = "Check"
    /\ UNCHANGED <<complexOutput, procData, numProcessed>>
    /\ UNCHANGED <<dataMutex, pauseDataCollection, acquisitionComplete,
                   dataQueue, backupDataQueue, dataSavingQueue,
                   processedDataQueue>>
    /\ UNCHANGED obsVars /\ ProcOnly

\* The exit test; both locks are released at the end of the iteration
\* (lines 49-53).
ProcCheck ==
    /\ procPc = "Check"
    /\ flagMutex = "proc"
    /\ flagMutex' = NoThread
    /\ dataMutex' = NoThread
    /\ procPc' = IF acquisitionComplete /\ dataQueue = <<>> THEN "Done"
                 ELSE "Lock"
    /\ UNCHANGED <<complexOutput, procData, numProcessed>>
    /\ UNCHANGED <<pauseDataCollection, acquisitionComplete, dataQueue,
                   backupDataQueue, dataSavingQueue, processedDataQueue>>
    /\ UNCHANGED obsVars /\ ProcOnly

Processing ==
    \/ ProcLock \/ ProcWake \/ ProcPop \/ ProcFFT \/ ProcPushLock \/ ProcPush
    \/ ProcRelock \/ ProcCheckLock \/ ProcCheck

\* ---------------------------------------------------------- saving stage
SaveOnly == UNCHANGED <<acqVars, procVars, decVars, fnVars>>

\* unique_lock and saveReadyCondition.wait (lines 125-128).
SaveLock ==
    /\ savePc = "Lock"
    /\ dataMutex = NoThread
    /\ IF dataSavingQueue # <<>>
       THEN /\ dataMutex' = "save"
            /\ savePc' = "Inner"
       ELSE /\ savePc' = "Blocked"
            /\ UNCHANGED dataMutex
    /\ UNCHANGED <<rawData, numSaved, files>>
    /\ UNCHANGED <<flagMutex, pauseDataCollection, acquisitionComplete,
                   dataQueue, backupDataQueue, dataSavingQueue,
                   processedDataQueue>>
    /\ UNCHANGED obsVars /\ SaveOnly

SaveWake ==
    /\ savePc = "Blocked"
    /\ dataSavingQueue # <<>>
    /\ dataMutex = NoThread
    /\ dataMutex' = "save"
    /\ savePc' = "Inner"
    /\ UNCHANGED <<rawData, numSaved, files>>
    /\ UNCHANGED <<flagMutex, pauseDataCollection, acquisitionComplete,
                   dataQueue, backupDataQueue, dataSavingQueue,
                   processedDataQueue>>
    /\ UNCHANGED obsVars /\ SaveOnly

\* front(), pop(), unlock() (lines 132-136).
SavePop ==
    /\ savePc = "Inner"
    /\ dataMutex = "save"
    /\ dataSavingQueue # <<>>
    /\ rawData' = QueueFront(dataSavingQueue)
    /\ dataSavingQueue' = QueuePop(dataSavingQueue)
    /\ dataMutex' = Unlock(dataMutex)
    /\ savePc' = "Write"
    /\ savePopped' = Append(savePopped, QueueFront(dataSavingQueue).id)
    /\ UNCHANGED <<numSaved, files>>
    /\ UNCHANGED <<flagMutex, pauseDataCollection, acquisitionComplete,
                   dataQueue, backupDataQueue, processedDataQueue>>
    /\ UNCHANGED <<waitOk, procPopped, decPopped, fftDone, pushedAfterPause,
                   pauseObserved, lateDataPush, lateSavePush,
                   lateProcessedPush>>
    /\ SaveOnly

\* "output/Buffer" + std::to_string(numSaved+1) + ".bin" (line 139).
FileNumberFromZero(saved) == saved
FileNumber(saved) == saved + 1

\* Opens of Buffer<N>.bin that have failed so far.
OpenFailures == Len(SelectSeq(files, LAMBDA f : ~f.opened))

\* Buffer<numSaved+1>.bin is opened; a failed open is reported and nothing is
\* written; numSaved++ and fftw_free run either way (lines 139-154).
SaveWrite ==
    /\ savePc = "Write"
    /\ \E opened \in BOOLEAN :
          /\ ~opened => OpenFailures < MaxOpenFailures
          /\ files' = Append(files,
                             [name   |-> FileNumber(numSaved),
                              opened |-> opened,
                              data   |-> IF opened THEN rawData.id ELSE 0])
    /\ numSaved' = numSaved + 1
    /\ rawData' = NoBuffer
    /\ savePc' = "Relock"
    /\ UNCHANGED <<sharedVars, obsVars>> /\ SaveOnly

\* lock.lock() (line 156).
SaveRelock ==
    /\ savePc = "Relock"
    /\ dataMutex = NoThread
    /\ dataMutex' = "save"
    /\ savePc' = "Inner"
    /\ UNCHANGED <<rawData, numSaved, files>>
    /\ UNCHANGED <<flagMutex, pauseDataCollection, acquisitionComplete,
                   dataQueue, backupDataQueue, dataSavingQueue,
                   processedDataQueue>>
    /\ UNCHANGED obsVars /\ SaveOnly

\* lock_guard on syncFlags.mutex after the inner loop (lines 132, 160-161).
SaveCheckLock ==
    /\ savePc = "Inner"
    /\ dataMutex = "save"
    /\ dataSavingQueue = <<>>
    /\ flagMutex = NoThread
    /\ flagMutex' = "save"
    /\ savePc' = "Check"
    /\ UNCHANGED <<rawData, numSaved, files>>
    /\ UNCHANGED <<dataMutex, pauseDataCollection, acquisitionComplete,
                   dataQueue, backupDataQueue, dataSavingQueue,
                   processedDataQueue>>
    /\ UNCHANGED obsVars /\ SaveOnly

\* The exit test (lines 162-166).
SaveCheck ==
    /\ savePc = "Check"
    /\ flagMutex = "save"
    /\ flagMutex' = NoThread
    /\ dataMutex' = NoThread
    /\ savePc' = IF acquisitionComplete /\ dataSavingQueue = <<>> THEN "Done"
                 ELSE "Lock"
    /\ UNCHANGED <<rawData, numSaved, files>>
    /\ UNCHANGED <<pauseDataCollection, acquisitionComplete, dataQueue,
                   backupDataQueue, dataSavingQueue, processedDataQueue>>
    /\ UNCHANGED obsVars /\ SaveOnly

Saving ==
    \/ SaveLock \/ SaveWake \/ SavePop \/ SaveWrite \/ SaveRelock
    \/ SaveCheckLock \/ SaveCheck

\* -------------------------------------------------------- decision stage
DecOnly == UNCHANGED <<acqVars, procVars, saveVars, fnVars>>

\* unique_lock and processedDataReadyCondition.wait (lines 69-72).
DecLock ==
    /\ decPc = "Lock"
    /\ dataMutex = NoThread
    /\ IF processedDataQueue # <<>>
       THEN /\ dataMutex' = "dec"
            /\ decPc' = "Inner"
       ELSE /\ decPc' = "Blocked"
            /\ UNCHANGED dataMutex
    /\ UNCHANGED <<processedOutput, buffersProcessed>>
    /\ UNCHANGED <<flagMutex, pauseDataCollection, acquisitionComplete,
                   dataQueue, backupDataQueue, dataSavingQueue,
                   processedDataQueue>>
    /\ UNCHANGED obsVars /\ DecOnly

DecWake ==
    /\ decPc = "Blocked"
    /\ processedDataQueue # <<>>
    /\ dataMutex = NoThread
    /\ dataMutex' = "dec"
    /\ decPc' = "Inner"
    /\ UNCHANGED <<processedOutput, buffersProcessed>>
    /\ UNCHANGED <<flagMutex, pauseDataCollection, acquisitionComplete,
                   dataQueue, backupDataQueue, dataSavingQueue,
                   processedDataQueue>>
    /\ UNCHANGED obsVars /\ DecOnly

\* front(), pop(), unlock() (lines 76-80).
DecPop ==
    /\ decPc = "Inner"
    /\ dataMutex = "dec"
    /\ processedDataQueue # <<>>
    /\ processedOutput' = QueueFront(processedDataQueue)
    /\ processedDataQueue' = QueuePop(processedDataQueue)
    /\ dataMutex' = Unlock(dataMutex)
    /\ decPc' = "Free"
    /\ decPopped' = Append(decPopped, QueueFront(processedDataQueue))
    /\ UNCHANGED buffersProcessed
    /\ UNCHANGED <<flagMutex, pauseDataCollection, acquisitionComplete,
                   dataQueue, backupDataQueue, dataSavingQueue>>
    /\ UNCHANGED <<waitOk, procPopped, savePopped, fftDone, pushedAfterPause,
                   pauseObserved, lateDataPush, lateSavePush,
                   lateProcessedPush>>
    /\ DecOnly

\* fftw_free, buffersProcessed++ and the stop test (lines 83-87, 94).
DecFree ==
    /\ decPc = "Free"
    /\ processedOutput' = NoBuffer
    /\ buffersProcessed' = buffersProcessed + 1
    /\ decPc' = IF buffersProcessed + 1 >= DecisionStopCount THEN "StopLock"
                ELSE "Relock"
    /\ UNCHANGED <<sharedVars, obsVars>> /\ DecOnly

\* lock_guard on syncFlags.mutex in the stop branch (line 88).
DecStopLock ==
    /\ decPc = "StopLock"
    /\ flagMutex = NoThread
    /\ flagMutex' = "dec"
    /\ decPc' = "Stop"
    /\ UNCHANGED <<processedOutput, buffersProcessed>>
    /\ UNCHANGED <<dataMutex, pauseDataCollection, acquisitionComplete,
                   dataQueue, backupDataQueue, dataSavingQueue,
                   processedDataQueue>>
    /\ UNCHANGED obsVars /\ DecOnly

\* Both flags are set and the inner loop is left by break, with
\* sharedData.mutex not held (lines 89-91).
DecStop ==
    /\ decPc = "Stop"
    /\ flagMutex = "dec"
    /\ acquisitionComplete' = TRUE
    /\ pauseDataCollection' = TRUE
    /\ flagMutex' = NoThread
    /\ decPc' = "AfterStop"
    /\ UNCHANGED <<processedOutput, buffersProcessed>>
    /\ UNCHANGED <<dataMutex, dataQueue, backupDataQueue, dataSavingQueue,
                   processedDataQueue>>
    /\ UNCHANGED obsVars /\ DecOnly

\* lock.lock() (line 94).
DecRelock ==
    /\ decPc = "Relock"
    /\ dataMutex = NoThread
    /\ dataMutex' = "dec"
    /\ decPc' = "Inner"
    /\ UNCHANGED <<processedOutput, buffersProcessed>>
    /\ UNCHANGED <<flagMutex, pauseDataCollection, acquisitionComplete,
                   dataQueue, backupDataQueue, dataSavingQueue,
                   processedDataQueue>>
    /\ UNCHANGED obsVars /\ DecOnly

\* lock_guard on syncFlags.mutex after the inner loop, reached either on an
\* empty queue (sharedData.mutex held) or from the stop branch (lines 76,
\* 98-99).
DecCheckLock ==
    /\ \/ /\ decPc = "Inner"
          /\ dataMutex = "dec"
          /\ processedDataQueue = <<>>
       \/ decPc = "AfterStop"
    /\ flagMutex = NoThread
    /\ flagMutex' = "dec"
    /\ decPc' = "Check"
    /\ UNCHANGED <<processedOutput, buffersProcessed>>
    /\ UNCHANGED <<dataMutex, pauseDataCollection, acquisitionComplete,
                   dataQueue, backupDataQueue, dataSavingQueue,
                   processedDataQueue>>
    /\ UNCHANGED obsVars /\ DecOnly

\* The exit test, which looks at acquisitionComplete only (lines 100-104).
DecCheck ==
    /\ decPc = "Check"
    /\ flagMutex = "dec"
    /\ flagMutex' = NoThread
    /\ dataMutex' = IF dataMutex = "dec" THEN NoThread ELSE dataMutex
    /\ decPc' = IF acquisitionComplete THEN "Done" ELSE "Lock"
    /\ UNCHANGED <<processedOutput, buffersProcessed>>
    /\ UNCHANGED <<pauseDataCollection, acquisitionComplete, dataQueue,
                   backupDataQueue, dataSavingQueue, processedDataQueue>>
    /\ UNCHANGED obsVars /\ DecOnly

Decision ==
    \/ DecLock \/ DecWake \/ DecPop \/ DecFree \/ DecStopLock \/ DecStop
    \/ DecRelock \/ DecCheckLock \/ DecCheck

\* ------------------------------------------------------------ specification
Next == Acquisition \/ Processing \/ Saving \/ Decision

Spec == Init /\ [][Next]_vars

\* Every thread that can take a step eventually takes one: the OS schedules
\* each of the four threads, every SDK call returns, and a thread waiting for
\* a mutex that is released again and again eventually gets it.
FairSpec ==
    /\ Spec
    /\ SF_vars(Acquisition) /\ SF_vars(Processing)
    /\ SF_vars(Saving) /\ SF_vars(Decision)

TypeOK ==
    /\ dataMutex \in {NoThread, "acq", "proc", "save", "dec"}
    /\ flagMutex \in {NoThread, "acq", "proc", "save", "dec"}
    /\ pauseDataCollection \in BOOLEAN /\ acquisitionComplete \in BOOLEAN
    /\ buffersCompleted \in 0..MaxBuffers
    /\ ioBuffers \subseteq 0..(BUFFER_COUNT - 1)
    /\ waitResult \in WaitReturnCodes

\* ------------------------------------------------------------------ claims
AcqReturned == acqPc = "Done"
AllConsumersReturned == procPc = "Done" /\ savePc = "Done" /\ decPc = "Done"

\* C1: under fair scheduling, once acquisitionComplete is set and the
\* acquisition stage has returned (so it enqueues nothing more), each of
\* processingThread, saveDataToBin and decisionMakingThread eventually returns.
C1_ConsumersEventuallyReturn ==
    (acquisitionComplete /\ AcqReturned) ~> AllConsumersReturned

\* C2: a downstream stage that has left its loop has an empty input queue, and
\* nothing is pushed onto that queue after the stage has exited.
C2_ExitOnlyAfterDrain ==
    /\ procPc = "Done" => (dataQueue = <<>> /\ ~lateDataPush)
    /\ savePc = "Done" => (dataSavingQueue = <<>> /\ ~lateSavePush)
    /\ decPc = "Done" => (processedDataQueue = <<>> /\ ~lateProcessedPush)

\* The buffer the acquisition stage holds between a successful wait and its
\* push, as a sequence of ids.
AcqInFlight ==
    IF acqPc = "Convert" THEN <<waitOk>>
    ELSE IF acqPc \in {"PushLock", "Push"} THEN <<acqBuffer.id>>
    ELSE <<>>

\* C3: no buffer is dropped under backpressure: the buffers whose wait
\* succeeded are, each exactly once and whatever the queue length, either still
\* being converted, in dataQueue, or already popped by the processing stage;
\* and the loop is left on account of the wait only when the board reported a
\* failure.
C3_NoBufferDropped ==
    /\ procPopped \o Ids(dataQueue) \o AcqInFlight = UpTo(waitOk)
    /\ buffersCompleted = Len(procPopped) + Len(dataQueue)
    /\ acqExit = "waitFailed" => waitResult \in WaitFailureCodes

C3_Witness ==
    /\ Len(dataQueue) >= 3
    /\ procPc = "FFT"
    /\ acqPc = "Repost"

\* C4: order is preserved end to end: what has been popped from dataQueue,
\* dataSavingQueue and processedDataQueue is the acquisition order 1, 2, ...,
\* and what is still queued continues that order.
C4_OrderPreserved ==
    /\ procPopped \o Ids(dataQueue) = UpTo(buffersCompleted)
    /\ savePopped \o Ids(dataSavingQueue)
         = UpTo(Len(savePopped) + Len(dataSavingQueue))
    /\ Ids(decPopped) \o Ids(processedDataQueue)
         = UpTo(Len(decPopped) + Len(processedDataQueue))
    /\ Ids(backupDataQueue) = UpTo(buffersCompleted)

C4_Witness ==
    /\ Len(savePopped) >= 3
    /\ Len(decPopped) >= 2
    /\ Len(procPopped) >= 4

\* C5: for every buffer, the enqueue on dataQueue precedes processDataFFT,
\* which precedes the decision stage's pop: the FFT runs only on buffers that
\* were enqueued, and the decision stage pops only FFT outputs of buffers on
\* which the FFT has run.
C5_StagesOrderedPerBuffer ==
    /\ \A k \in fftDone : k \in 1..buffersCompleted
    /\ procPc = "FFT" =>
         (complexOutput.kind = "raw" /\ complexOutput.id \in 1..buffersCompleted)
    /\ \A i \in 1..Len(decPopped) :
         decPopped[i].kind = "fft" /\ decPopped[i].id \in fftDone

\* Three different buffers are in three different stages at once.
C5_Witness ==
    /\ decPc = "Free" /\ processedOutput.id = 1
    /\ procPc = "FFT" /\ complexOutput.id = 2
    /\ acqPc \in {"PushLock", "Push"} /\ acqBuffer.id = 3

AcqLeavingPcs == {"Complete", "SetComplete", "Abort", "Destroy", "Done"}

\* C6: after pauseDataCollection is set the acquisition stage enqueues at most
\* one more buffer; once its pause test has seen the flag it never triggers or
\* waits again but goes on to set acquisitionComplete and return.
C6_Cancellation ==
    /\ pushedAfterPause <= 1
    /\ pauseObserved => (acqPc \in AcqLeavingPcs /\ acqExit = "pause")
    /\ (pauseObserved /\ acqPc \in {"Abort", "Destroy", "Done"})
          => acquisitionComplete

C6_Witness ==
    /\ pauseObserved
    /\ pushedAfterPause = 1
    /\ acqPc = "Done"

\* C7: a stage that leaves on a fatal error has set both flags; in particular
\* when the acquisition stage leaves through its exception handler both
\* pauseDataCollection and acquisitionComplete are set.
C7_ExceptionSetsBothFlags ==
    (acqPc = "Done" /\ acqExit = "exception")
       => (pauseDataCollection /\ acquisitionComplete)

\* C8: after a failed DMA wait the stage enqueues nothing for that buffer,
\* leaves the loop, sets acquisitionComplete, aborts the async read and
\* destroys all I/O buffers.
C8_WaitFailure ==
    waitResult \in WaitFailureCodes =>
       /\ acqExit = "waitFailed"
       /\ acqPc \in AcqLeavingPcs
       /\ procPopped \o Ids(dataQueue) = UpTo(waitOk)
       /\ buffersCompleted = waitOk
       /\ acqPc \in {"Abort", "Destroy", "Done"} => acquisitionComplete
       /\ acqPc \in {"Destroy", "Done"} => dmaAborted
       /\ acqPc = "Done" => ioBuffers = {}

C8_Witness ==
    /\ waitResult = "ApiBufferOverflow"
    /\ acqPc = "Done"
    /\ waitOk = 2
    /\ acquisitionComplete /\ dmaAborted /\ ioBuffers = {}

TransportError ==
    \/ waitResult \in WaitFailureCodes
    \/ acqExit = "exception" /\ board = "primed"
         /\ Cardinality(ioBuffers) < BUFFER_COUNT

\* C9: on a hardware transport error (failed wait, allocation failure) the
\* acquisition stage has, when it exits, aborted DMA and set both flags.
C9_TransportErrorSetsFlags ==
    (acqPc = "Done" /\ TransportError)
       => (dmaAborted /\ pauseDataCollection /\ acquisitionComplete)

\* C10: on every exit path of the acquisition stage every I/O buffer it
\* created is destroyed and, once buffers were posted to the board, the async
\* read is aborted.
C10_ResourcesReleased ==
    acqPc = "Done" =>
       /\ ioBuffers = {}
       /\ posted # <<>> => dmaAborted

\* C11: no stage does its heavy work while holding sharedData.mutex: not the
\* processing stage during processDataFFT, not the saving stage while writing
\* a file, not the decision stage while freeing a buffer, and not the
\* acquisition stage while waiting on or converting a DMA buffer.
C11_NoWorkUnderQueueLock ==
    /\ procPc = "FFT" => dataMutex # "proc"
    /\ savePc = "Write" => dataMutex # "save"
    /\ decPc = "Free" => dataMutex # "dec"
    /\ acqPc \in {"Wait", "Convert"} => dataMutex # "acq"

\* All four stages are busy at once, and the lock is free.
C11_Witness ==
    /\ procPc = "FFT" /\ savePc = "Write" /\ decPc = "Free"
    /\ acqPc = "Convert"
    /\ dataMutex = NoThread

\* ===================================================== sample clock
\* ATS::setExternalSampleClock (src/src/instruments/ATS.cpp:62-112; the copy
\* in src/src/ATS.cpp:50-100 is identical).  Rates are integers in units of
\* 1/RateResolution MHz; quotients of rates are kept as exact fractions
\* [num, den], so that comparisons of errors are exact.

\* Rate units per MHz.
RateResolution == 100

\* Number of equally spaced requests taken from [0, 200 MHz].
RateSamples == 60

MinBareRateMHz == 150
MaxBareRateMHz == 180
MaxDecimation == 10000
MaxRequestMHz == 200

Abs(x) == IF x < 0 THEN -x ELSE x
Min(a, b) == IF a < b THEN a ELSE b
Max(a, b) == IF a > b THEN a ELSE b

\* std::round of a / b for a >= 0, b > 0: halves go away from zero.
RoundDiv(a, b) == (2 * a + b) \div (2 * b)

\* The requests explored: an even grid over [0, 200 MHz] and the rates named
\* in the documentation (10, 9.57 MHz), the middles of the gaps between the
\* decimation bands (120, 67.5, 47.5 MHz) and the two ends of the range.
RequestedRates ==
    {(k * MaxRequestMHz * RateResolution) \div RateSamples : k \in 0..RateSamples}
      \cup {10 * RateResolution, (957 * RateResolution) \div 100,
            120 * RateResolution, (135 * RateResolution) \div 2,
            (95 * RateResolution) \div 2, 1, 2,
            MaxBareRateMHz * RateResolution, MaxRequestMHz * RateResolution}

\* bareSampleRates[i], i = 0..30 (lines 66-70).
NumBareRates == MaxBareRateMHz - MinBareRateMHz + 1
BareSampleRate(i) == (MinBareRateMHz + i) * RateResolution

\* min(std::abs(requestedSampleRate), 180e6) (line 64).
ClampRequest(r) == Min(Abs(r), MaxBareRateMHz * RateResolution)

\* (int) min(std::round(rate / requestedSampleRate), 10000) (line 76); for a
\* request of 0 the quotient is +infinity and the minimum is 10000.
DecimationFactorTruncated(rate, req) ==
    IF req = 0 THEN MaxDecimation ELSE Min(rate \div req, MaxDecimation)
DecimationFactor(rate, req) ==
    IF req = 0 THEN MaxDecimation ELSE Min(RoundDiv(rate, req), MaxDecimation)

\* std::abs(effectiveSampleRates[i] - requestedSampleRate) as a fraction
\* (lines 79, 87).
SampleRateError(i, req) ==
    LET rate   == BareSampleRate(i)
        factor == DecimationFactor(rate, req)
    IN  [num |-> Abs(rate - req * factor), den |-> factor]

\* minError starts as DBL_MAX (line 85).
DblMax == [num |-> 1, den |-> 0]

\* error < minError (line 89).
ErrorNotAbove(error, minError) ==
    \/ minError = DblMax
    \/ error.num * minError.den <= minError.num * error.den
ErrorBelow(error, minError) ==
    \/ minError = DblMax
    \/ error.num * minError.den < minError.num * error.den

\* The search loop with its early exit on a zero error (lines 84-97).
RECURSIVE ScanBestIndex(_, _, _, _)
ScanBestIndex(i, bestIndex, minError, req) ==
    IF i >= NumBareRates THEN bestIndex
    ELSE LET error == SampleRateError(i, req)
         IN  IF ErrorBelow(error, minError)
             THEN IF error.num = 0 THEN i
                  ELSE ScanBestIndex(i + 1, i, error, req)
             ELSE ScanBestIndex(i + 1, bestIndex, minError, req)

ClockInit ==
    /\ PipelineIdle
    /\ fnPc = "setExternalSampleClock"
    /\ fnIn \in [requestedSampleRate : RequestedRates]
    /\ fnOut = NoValue

\* The whole call: the choice of the pair, AlazarSetCaptureClock and the
\* returned realized rate bare / decimation (lines 62-112).
SetExternalSampleClock ==
    /\ fnPc = "setExternalSampleClock"
    /\ LET req       == ClampRequest(fnIn.requestedSampleRate)
           bestIndex == ScanBestIndex(0, 0, DblMax, req)
           bare      == BareSampleRate(bestIndex)
           factor    == DecimationFactor(bare, req)
       IN  \E ok \in BOOLEAN :
             IF ok
             THEN /\ fnPc' = "clockSet"
                  /\ fnOut' = [bareSampleRate |-> bare,
                               decimation     |-> factor,
                               clockDecimationArg |-> factor - 1,
                               realized |-> [num |-> bare, den |-> factor]]
             ELSE /\ fnPc' = "clockError"
                  /\ fnOut' = NoValue
    /\ UNCHANGED fnIn
    /\ UNCHANGED pipelineVars

ClockNext == SetExternalSampleClock

ClockSpec == ClockInit /\ [][ClockNext]_vars

LegalBareRates ==
    {b * RateResolution : b \in MinBareRateMHz..MaxBareRateMHz}

C13_ExactAndLowestBare ==
    fnPc = "clockSet" =>
       LET r == fnIn.requestedSampleRate
           b == fnOut.bareSampleRate
           d == fnOut.decimation
       IN  /\ (\E b2 \in LegalBareRates : \E d2 \in 1..MaxDecimation :
                  b2 = r * d2)
                => fnOut.realized.num = r * fnOut.realized.den
           /\ \A b2 \in LegalBareRates : \A d2 \in 1..MaxDecimation :
                b2 < b => Abs(b2 - r * d2) * d > Abs(b - r * d) * d2
           /\ r = 10 * RateResolution =>
                /\ b = 150 * RateResolution /\ d = 15
                /\ fnOut.realized.num = r * fnOut.realized.den

\* The 120 MHz request, where 150 MHz / 1 and 180 MHz / 2 are equally far.
C13_Witness ==
    /\ fnPc = "clockSet"
    /\ fnIn.requestedSampleRate = 120 * RateResolution
    /\ fnOut.bareSampleRate = 150 * RateResolution
    /\ fnOut.decimation = 1

\* =========================================== acquisition parameters
\* ATS::setAcquisitionParameters and ATS::suggestBufferNumber
\* (src/src/instruments/ATS.cpp:232-266, 300-363; src/src/ATS.cpp:495-529).

\* Requested sample counts: 1..SmallSamples and SampleStep * k + j.
SmallSamples == 8
SampleStep == 500000
MaxSampleSteps == 15
MaxSampleOffset == 3
\* Largest buffer hint explored.
MaxHint == 4

ChannelCount == 2
\* desiredBytesPerBuffer of the two versions of suggestBufferNumber.
DesiredBytesPerBuffer == {2000000, 4000000}
\* bitsPerSample values AlazarGetChannelInfo reports.
BitsPerSampleValues == {8, 16}
\* The configuration of control_tests.cpp: 30 MHz, 7.5e6 samples.
TestedSamples == 7500000
TestedSampleRate == 30 * RateResolution

\* Requested full-scale ranges in millivolts.
RequestedRanges == {0, 200, 201, 400, 401, 800, 801, 2000, 5000}

\* The configured range for a requested one (setInputParameters, lines 136-150).
SnapRangeStrict(inputRange) ==
    IF inputRange < 200 THEN 200
    ELSE IF inputRange < 400 THEN 400
    ELSE IF inputRange < 800 THEN 800
    ELSE 2000
SnapRange(inputRange) ==
    IF inputRange <= 200 THEN 200
    ELSE IF inputRange <= 400 THEN 400
    ELSE IF inputRange <= 800 THEN 800
    ELSE 2000

\* 47.5 MHz: a request that no bare rate and decimation realize exactly.
OffGridSampleRate == (95 * RateResolution) \div 2

SampleCounts ==
    (1..SmallSamples) \cup {TestedSamples}
      \cup {SampleStep * k + j : k \in 1..MaxSampleSteps, j \in 0..MaxSampleOffset}

\* (bitsPerSample + 7) / 8 (lines 251, 323).
BytesPerSample(bits) == (bits + 7) \div 8

\* max(1, (U32) round(bytesPerSample * samples * channelCount / desired));
\* the quotient is an integer division, so the rounding changes nothing
\* (line 252).
InitialBufferNumber(bytesPerSample, samples, desired) ==
    Max(1, (bytesPerSample * samples * ChannelCount) \div desired)

\* The search for a divisor around the initial count (lines 255-263).
RECURSIVE DivisorSearch(_, _, _)
DivisorSearch(samples, buffers, spread) ==
    IF samples % buffers = 0 THEN buffers
    ELSE IF samples % (buffers + spread) = 0
         THEN DivisorSearch(samples, buffers + spread, spread + 1)
         ELSE IF samples % (buffers - spread) = 0
              THEN DivisorSearch(samples, buffers - spread, spread + 1)
              ELSE DivisorSearch(samples, buffers, spread + 1)

SuggestWithoutSearch(bytesPerSample, samples, desired) ==
    InitialBufferNumber(bytesPerSample, samples, desired)
suggestBufferNumber(bytesPerSample, samples, desired) ==
    DivisorSearch(samples,
                  InitialBufferNumber(bytesPerSample, samples, desired), 1)

\* acquisitionParams.samplesPerAcquisition is recomputed from the stored
\* buffer size (line 331).
RequestedSampleCount(samplesPerBuffer, buffers, requested) == requested
StoredSampleCount(samplesPerBuffer, buffers, requested) ==
    samplesPerBuffer * buffers

\* bytesPerBuffer = bytesPerSample * samplesPerBuffer * channelCount
\* (line 328).
BufferBytesOneChannel(bytesPerSample, samplesPerBuffer) ==
    bytesPerSample * samplesPerBuffer
BufferBytes(bytesPerSample, samplesPerBuffer) ==
    bytesPerSample * samplesPerBuffer * ChannelCount

\* acquisitionParams.inputRange = inputRange (line 322); setInputParameters
\* then receives the stored value (lines 341, 344).
StoredRange(inputRange) == inputRange

ParamsInit ==
    /\ PipelineIdle
    /\ fnPc = "setAcquisitionParameters"
    /\ fnIn \in [sampleRate            : {TestedSampleRate, OffGridSampleRate},
                 samplesPerAcquisition : SampleCounts,
                 buffersPerAcquisition : 0..MaxHint,
                 bitsPerSample         : BitsPerSampleValues,
                 desiredBytesPerBuffer : DesiredBytesPerBuffer,
                 inputRange            : RequestedRanges]
    /\ fnOut = NoValue

\* The whole call.  failAt = "channelInfo": AlazarGetChannelInfo fails in
\* suggestBufferNumber or in the caller, before anything is stored;
\* failAt = "board": one of the later board calls (capture clock, input
\* control, bandwidth limit, record size, record count) fails after the
\* parameters were stored.
SetAcquisitionParameters ==
    /\ fnPc = "setAcquisitionParameters"
    /\ \E failAt \in {"none", "channelInfo", "board"} :
         IF failAt = "channelInfo"
         THEN /\ fnPc' = "paramsError"
              /\ fnOut' = NoValue
         ELSE LET samples == fnIn.samplesPerAcquisition
                  bytes   == BytesPerSample(fnIn.bitsPerSample)
                  buffers == IF fnIn.buffersPerAcquisition <= 0
                             THEN suggestBufferNumber(bytes, samples,
                                      fnIn.desiredBytesPerBuffer)
                             ELSE fnIn.buffersPerAcquisition
                  perBuf  == samples \div buffers
                  req     == ClampRequest(fnIn.sampleRate)
                  best    == BareSampleRate(ScanBestIndex(0, 0, DblMax, req))
              IN  /\ fnPc' = IF failAt = "none" THEN "paramsSet"
                                                ELSE "paramsError"
                  /\ fnOut' =
                       [sampleRate            |-> fnIn.sampleRate,
                        buffersPerAcquisition |-> buffers,
                        inputRange            |-> StoredRange(fnIn.inputRange),
                        boardRange            |->
                            SnapRange(StoredRange(fnIn.inputRange)),
                        recordsPerAcquisition |-> 1 * buffers,
                        samplesPerBuffer      |-> perBuf,
                        bytesPerSample        |-> bytes,
                        bytesPerBuffer        |-> BufferBytes(bytes, perBuf),
                        samplesPerAcquisition |->
                            StoredSampleCount(perBuf, buffers, samples),
                        realSampleRate |->
                            [num |-> best,
                             den |-> DecimationFactor(best, req)]]
    /\ UNCHANGED fnIn
    /\ UNCHANGED pipelineVars

ParamsNext == SetAcquisitionParameters

ParamsSpec == ParamsInit /\ [][ParamsNext]_vars

ParamsStored == fnPc \in {"paramsSet", "paramsError"} /\ fnOut # NoValue

\* C14 as stated: for samples > 0 and a hint > 0 the stored B is >= 1 and
\* divides samples, so samplesPerBuffer * B is the requested count.
C14_HintDividesExactly ==
    (ParamsStored /\ fnIn.buffersPerAcquisition > 0) =>
       /\ fnOut.buffersPerAcquisition >= 1
       /\ fnIn.samplesPerAcquisition % fnOut.buffersPerAcquisition = 0
       /\ fnOut.samplesPerBuffer * fnOut.buffersPerAcquisition
            = fnIn.samplesPerAcquisition

\* C14 amended: for samples > 0 and a hint > 0 the stored B is the hint,
\* samplesPerBuffer is samples / B rounded down, and the stored
\* samplesPerAcquisition is samplesPerBuffer * B: the largest multiple of B
\* not above the request, equal to it exactly when the hint divides it.
C14_HintKeptAndTruncated ==
    (ParamsStored /\ fnIn.buffersPerAcquisition > 0) =>
       LET B == fnOut.buffersPerAcquisition
           n == fnIn.samplesPerAcquisition
       IN  /\ B = fnIn.buffersPerAcquisition
           /\ B >= 1
           /\ fnOut.samplesPerBuffer * B = fnOut.samplesPerAcquisition
           /\ fnOut.samplesPerAcquisition <= n
           /\ n - fnOut.samplesPerAcquisition < B
           /\ (fnOut.samplesPerAcquisition = n) <=> (n % B = 0)

\* A hint that does not divide the request: the remainder is dropped.
C14_Witness ==
    /\ fnPc = "paramsSet"
    /\ fnIn.buffersPerAcquisition = 3
    /\ fnIn.samplesPerAcquisition = 7
    /\ fnOut.buffersPerAcquisition = 3
    /\ fnOut.samplesPerBuffer = 2
    /\ fnOut.samplesPerAcquisition = 6

MinGoodBufferBytes == 1048576
MaxGoodBufferBytes == 16000000

\* C15: with hint = 0 the chosen B divides samples exactly, and for the
\* tested configuration (7.5e6 samples, 2-byte samples, two channels) the
\* buffer size bytesPerSample * (samples / B) * 2 lies in [1 MB, 16 MB].
C15_AutoSizing ==
    (ParamsStored /\ fnIn.buffersPerAcquisition = 0) =>
       LET B == fnOut.buffersPerAcquisition
           n == fnIn.samplesPerAcquisition
       IN  /\ B >= 1
           /\ n % B = 0
           /\ fnOut.samplesPerBuffer * B = n
           /\ (n = TestedSamples /\ fnIn.bitsPerSample = 16) =>
                /\ fnOut.bytesPerBuffer = 2 * (n \div B) * 2
                /\ fnOut.bytesPerBuffer >= MinGoodBufferBytes
                /\ fnOut.bytesPerBuffer <= MaxGoodBufferBytes

\* control_tests.cpp: 7.5e6 samples in 15 buffers of 2 MB.
C15_Witness ==
    /\ fnPc = "paramsSet"
    /\ fnIn.buffersPerAcquisition = 0
    /\ fnIn.samplesPerAcquisition = TestedSamples
    /\ fnIn.bitsPerSample = 16
    /\ fnIn.desiredBytesPerBuffer = 2000000
    /\ fnOut.buffersPerAcquisition = 15
    /\ fnOut.bytesPerBuffer = 2000000

\* ============================================== voltage conversion
\* The conversion loop of the acquisition stage
\* (src/src/instruments/ATS.cpp:784-797 in AcquireDataMultithreadedContinuous,
\* 478-497 in AcquireData).  Ranges are in tenths of a volt and a voltage is
\* the numerator of a fraction over VoltsDenominator, so the arithmetic is
\* exact.

\* Samples per channel in the converted buffer.
ConvSamplesPerBuffer == 3
\* Distance between successive sample codes of the explored buffers.
CodeStride == 21845

FullScaleCode == 65535
NumCodes == 65536
ZeroVoltCode == 32768

\* 0.2, 0.4, 0.8 and 2 V.
InputRanges == {2, 4, 8, 20}

VoltsDenominator == FullScaleCode

\* (code / (double)0xFFFF) * 2 * inputRange - inputRange (lines 489-490, 789-790).
CodeToVoltsHalfDivisor(code, range) ==
    2 * (2 * code * range - range * FullScaleCode)
CodeToVolts(code, range) ==
    2 * code * range - range * FullScaleCode

\* if (index % 2 == 1) both components *= -1 (lines 493-496, 793-796).
SampleSignFlipped(index) == IF index % 2 = 1 THEN 1 ELSE -1
SampleSign(index) == IF index % 2 = 1 THEN -1 ELSE 1

\* The DMA buffer as the board fills it for CHANNEL_A | CHANNEL_B with one
\* record per buffer and no sample interleave: the record of channel A
\* followed by the record of channel B.
DmaBuffer(channelA, channelB) == channelA \o channelB

\* The loop over i < bufferData.size()/2; element base + i of complexOutput
\* is written (base is 0 in the continuous version and
\* buffersCompleted * samplesPerBuffer in AcquireData).
ConvertBuffer(bufferData, range, base) ==
    LET half == Len(bufferData) \div 2
    IN  [index \in base..(base + half - 1) |->
           LET i == index - base
           IN  [re |-> SampleSign(index) * CodeToVolts(bufferData[i + 1], range),
                im |-> SampleSign(index)
                         * CodeToVolts(bufferData[half + i + 1], range)]]

ConvInit ==
    /\ PipelineIdle
    /\ fnPc = "convert"
    /\ \E seed \in 0..(NumCodes - 1), range \in InputRanges,
          variant \in {<<TRUE, 0>>, <<FALSE, 0>>, <<FALSE, 1>>} :
         fnIn = [inputRange |-> range,
                 channelA |-> [i \in 1..ConvSamplesPerBuffer |->
                                 (seed + (i - 1) * CodeStride) % NumCodes],
                 channelB |-> [i \in 1..ConvSamplesPerBuffer |->
                                 (seed + (ConvSamplesPerBuffer + i - 1) * CodeStride)
                                    % NumCodes],
                 continuous |-> variant[1],
                 buffersCompleted |-> variant[2]]
    /\ fnOut = NoValue

\* AcquireDataMultithreadedContinuous: a fresh complexOutput per buffer.
ConvertContinuous ==
    /\ fnPc = "convert"
    /\ fnIn.continuous
    /\ fnPc' = "converted"
    /\ fnOut' = ConvertBuffer(DmaBuffer(fnIn.channelA, fnIn.channelB),
                              fnIn.inputRange, 0)
    /\ UNCHANGED fnIn
    /\ UNCHANGED pipelineVars

\* AcquireData: one complexOutput for the acquisition, written at
\* buffersCompleted * samplesPerBuffer + i.
ConvertSingle ==
    /\ fnPc = "convert"
    /\ ~ fnIn.continuous
    /\ fnPc' = "converted"
    /\ fnOut' = ConvertBuffer(DmaBuffer(fnIn.channelA, fnIn.channelB),
                              fnIn.inputRange,
                              fnIn.buffersCompleted * Len(fnIn.channelA))
    /\ UNCHANGED fnIn
    /\ UNCHANGED pipelineVars

ConvNext == ConvertContinuous \/ ConvertSingle

ConvSpec == ConvInit /\ [][ConvNext]_vars

ConvBase == fnIn.buffersCompleted * ConvSamplesPerBuffer

\* C16: every emitted component lies in [-range, +range]; before the sign
\* alternation code 0x0000 gives -range, 0xFFFF gives +range, and 0x8000
\* gives a value within one LSB (2 * range / 0xFFFF) of 0.
C16_VoltageRange ==
    fnPc = "converted" =>
       \A index \in DOMAIN fnOut :
          LET R    == fnIn.inputRange
              full == R * VoltsDenominator
              i    == index - ConvBase + 1
              sgn  == IF index % 2 = 0 THEN 1 ELSE -1
              InRange(v, code) ==
                 /\ -full <= v /\ v <= full
                 /\ -full <= sgn * v /\ sgn * v <= full
                 /\ code = 0 => sgn * v = -full
                 /\ code = FullScaleCode => sgn * v = full
                 /\ code = ZeroVoltCode => Abs(v) <= 2 * R
          IN  /\ InRange(fnOut[index].re, fnIn.channelA[i])
              /\ InRange(fnOut[index].im, fnIn.channelB[i])

\* The code 0x0000 on channel A at 2 V: the first real part is -2 V.
C16_Witness ==
    /\ fnPc = "converted"
    /\ fnIn.continuous
    /\ fnIn.inputRange = 20
    /\ fnIn.channelA[1] = 0
    /\ fnOut[0].re = -20 * VoltsDenominator
    /\ fnOut[1].re <= 20 * VoltsDenominator

\* C17: element i of the emitted buffer has the channel-A voltage of
\* sample i as real part and the channel-B voltage of sample i as imaginary
\* part, both negated exactly when i is odd.
C17_ChannelsAndAlternation ==
    fnPc = "converted" =>
       /\ DOMAIN fnOut = ConvBase..(ConvBase + ConvSamplesPerBuffer - 1)
       /\ \A index \in DOMAIN fnOut :
            LET R  == fnIn.inputRange
                i  == index - ConvBase + 1
                vA == (2 * fnIn.channelA[i] - FullScaleCode) * R
                vB == (2 * fnIn.channelB[i] - FullScaleCode) * R
            IN  IF index % 2 = 1
                THEN fnOut[index].re = -vA /\ fnOut[index].im = -vB
                ELSE fnOut[index].re = vA /\ fnOut[index].im = vB

\* Distinct channel A and channel B codes, with an odd and an even element.
C17_Witness ==
    /\ fnPc = "converted"
    /\ fnIn.continuous
    /\ fnIn.inputRange = 2
    /\ fnIn.channelA[1] = 1
    /\ fnIn.channelA[2] = 1 + CodeStride
    /\ fnIn.channelB[2] # fnIn.channelA[2]
    /\ fnOut[0].re = (2 * 1 - FullScaleCode) * 2
    /\ fnOut[1].re = -(2 * (1 + CodeStride) - FullScaleCode) * 2
    /\ fnOut[1].im = -(2 * fnIn.channelB[2] - FullScaleCode) * 2

\* ==================================================== spectrum files
\* saveSpectrum and readCSV (src/src/util/fileIO.cpp:105-124, 14-45).
\* A double is an integer count of a fixed small unit; its text is the
\* decimal the stream prints: a sign, at most SignificantDigits digits and a
\* power of ten.  A file is a sequence of number texts and separator
\* characters.

\* Longest powers / frequency vectors explored.
MaxSpectrumLen == 2
\* Largest maxLines argument explored (smallest is -1, the default).
MaxLinesArg == 2

\* Default precision of operator<<(double).
SignificantDigits == 6

\* Values with fewer, exactly and more significant digits than are printed.
SpectrumValues == {0, 5, -42, 999999, 1000005, -123456789}

RECURSIVE Pow10(_)
Pow10(n) == IF n <= 0 THEN 1 ELSE 10 * Pow10(n - 1)

RECURSIVE NumDigits(_)
NumDigits(a) == IF a < 10 THEN 1 ELSE 1 + NumDigits(a \div 10)

\* dataFile << value: the value rounded to six significant digits (ties to
\* even).
FormatDouble(v) ==
    LET a  == Abs(v)
        nd == NumDigits(a)
    IN  IF nd <= SignificantDigits
        THEN [kind |-> "number", neg |-> v < 0, digits |-> a, exp |-> 0]
        ELSE LET scale == Pow10(nd - SignificantDigits)
                 q     == a \div scale
                 rem   == a % scale
                 up    == \/ 2 * rem > scale
                          \/ 2 * rem = scale /\ q % 2 = 1
             IN  [kind |-> "number", neg |-> v < 0,
                  digits |-> IF up THEN q + 1 ELSE q,
                  exp |-> nd - SignificantDigits]

\* std::stod of a cell holding one number text.
ParseDouble(text) ==
    (IF text.neg THEN -1 ELSE 1) * text.digits * Pow10(text.exp)

Char(c) == [kind |-> "char", char |-> c]
IsChar(token, c) == token.kind = "char" /\ token.char = c

\* data[0], then "," << data[i] for i >= 1 (lines 108-111, 115-118).
RECURSIVE WriteCells(_, _)
WriteCells(data, i) ==
    IF i > Len(data) THEN <<>>
    ELSE (IF i = 1 THEN <<>> ELSE <<Char(",")>>)
           \o <<FormatDouble(data[i])>> \o WriteCells(data, i + 1)

RowSeparatorComma == Char(",")
RowSeparator == Char("\n")

\* The text saveSpectrum writes when the file opens (lines 108-118).
SpectrumText(spectrum) ==
    WriteCells(spectrum.powers, 1) \o <<RowSeparator>>
      \o WriteCells(spectrum.freqAxis, 1)

\* std::getline with a delimiter, repeated until the input is exhausted: a
\* trailing delimiter does not start another piece.
RECURSIVE SplitAt(_, _)
SplitAt(text, c) ==
    IF text = <<>> THEN <<>>
    ELSE IF \E k \in 1..Len(text) : IsChar(text[k], c)
         THEN LET k == CHOOSE k \in 1..Len(text) :
                         /\ IsChar(text[k], c)
                         /\ \A j \in 1..(k - 1) : ~ IsChar(text[j], c)
              IN  <<SubSeq(text, 1, k - 1)>>
                    \o SplitAt(SubSeq(text, k + 1, Len(text)), c)
         ELSE <<text>>

\* std::stod throws unless the cell starts with a number.
CellParses(cell) == cell # <<>> /\ cell[1].kind = "number"

\* The rows readCSV builds from an opened file (lines 26-42).
ReadRows(text, maxLines) ==
    LET lines == SplitAt(text, "\n")
        count == IF maxLines > 0 THEN Min(maxLines, Len(lines))
                 ELSE Len(lines)
    IN  [r \in 1..count |->
           LET cells == SplitAt(lines[r], ",")
           IN  [k \in 1..Len(cells) |->
                  IF CellParses(cells[k]) THEN ParseDouble(cells[k][1])
                  ELSE "invalid_argument"]]

Vectors == UNION {[1..n -> SpectrumValues] : n \in 1..MaxSpectrumLen}

FileInit ==
    /\ PipelineIdle
    /\ fnPc = "saveSpectrum"
    /\ fnIn \in [powers : Vectors, freqAxis : Vectors,
                 maxLines : (-1)..MaxLinesArg]
    /\ fnOut = NoValue

\* saveSpectrum: the file is written when it opens, otherwise only a
\* message is printed and no file appears.
SaveSpectrum ==
    /\ fnPc = "saveSpectrum"
    /\ \E opened \in BOOLEAN :
         fnOut' = [exists |-> opened,
                   text   |-> IF opened THEN SpectrumText(fnIn) ELSE <<>>,
                   readOpened |-> FALSE,
                   rows   |-> <<>>]
    /\ fnPc' = "readCSV"
    /\ UNCHANGED fnIn
    /\ UNCHANGED pipelineVars

\* readCSV(filename, maxLines): empty when the file cannot be opened.
ReadCSV ==
    /\ fnPc = "readCSV"
    /\ \E opened \in {fnOut.exists, FALSE} :
         fnOut' = [fnOut EXCEPT
                     !.readOpened = opened,
                     !.rows = IF opened THEN ReadRows(fnOut.text, fnIn.maxLines)
                              ELSE <<>>]
    /\ fnPc' = "readDone"
    /\ UNCHANGED fnIn
    /\ UNCHANGED pipelineVars

FileNext == SaveSpectrum \/ ReadCSV

FileSpec == FileInit /\ [][FileNext]_vars

\* |read - written| is at most half a unit of the sixth significant digit
\* of the written value.
SameToSixDigits(written, read) ==
    /\ read \in Int
    /\ IF Abs(written) < 1000000 THEN read = written
       ELSE /\ Abs(read - written) <= Abs(written) \div 200000
            /\ (read < 0) = (written < 0)

\* C18: for a spectrum with non-empty vectors of equal length the file holds
\* exactly two lines, powers then frequency axis, and readCSV gives back two
\* rows of the same lengths whose elements equal the written ones to the six
\* significant digits of the decimal text.
C18_SpectrumRoundTrip ==
    (/\ fnPc = "readDone" /\ fnOut.readOpened
     /\ Len(fnIn.powers) = Len(fnIn.freqAxis)
     /\ fnIn.maxLines <= 0 \/ fnIn.maxLines >= 2) =>
       /\ Len(SelectSeq(fnOut.text, LAMBDA t : IsChar(t, "\n"))) = 1
       /\ ~ IsChar(fnOut.text[Len(fnOut.text)], "\n")
       /\ Len(fnOut.rows) = 2
       /\ Len(fnOut.rows[1]) = Len(fnIn.powers)
       /\ Len(fnOut.rows[2]) = Len(fnIn.freqAxis)
       /\ \A i \in 1..Len(fnIn.powers) :
            SameToSixDigits(fnIn.powers[i], fnOut.rows[1][i])
       /\ \A i \in 1..Len(fnIn.freqAxis) :
            SameToSixDigits(fnIn.freqAxis[i], fnOut.rows[2][i])

\* Two-element vectors, one value printed exactly and one rounded.
C18_Witness ==
    /\ fnPc = "readDone" /\ fnOut.readOpened
    /\ fnIn.maxLines = -1
    /\ fnIn.powers = <<5, -123456789>>
    /\ fnIn.freqAxis = <<999999, 1000005>>
    /\ fnOut.rows = << <<5, -123457000>>, <<999999, 1000000>> >>

\* ================================================ input configuration
\* ATS::setInputParameters and ATS::getChannelID
\* (src/src/instruments/ATS.cpp:124-179, 210-221), called the way main of
\* src/src/control_tests.cpp calls the card: configuration and acquisition
\* inside one try block.  Ranges are in millivolts, impedances in ohms.

ChannelLetters == {"a", "A", "b", "B", "c", "C", "x", "1"}
CouplingStrings == {"DC", "dc", "AC", "ac", "Dc", "aC", "", "gnd"}
RequestedImpedances == {0, 50, 75, 1000000}

\* std::toupper on the explored letters.
ToUpper(c) ==
    CASE c = "a" -> "A" [] c = "b" -> "B" [] c = "c" -> "C"
      [] c = "x" -> "X" [] OTHER -> c

\* getChannelID: the channel id, or the exception it throws.
InvalidChannel == "Invalid channel selection. Select channel 'A' or 'B'"
getChannelID(channel) ==
    IF ToUpper(channel) = "A" THEN "CHANNEL_A"
    ELSE IF ToUpper(channel) = "B" THEN "CHANNEL_B"
    ELSE InvalidChannel

InvalidCoupling == "Invalid coupling selection. Select 'DC' or 'AC'"
AnyCoupling(coupling) == TRUE
ValidCoupling(coupling) == coupling \in {"DC", "dc", "AC", "ac"}

CouplingMode(coupling) ==
    IF coupling \in {"DC", "dc"} THEN "DC_COUPLING" ELSE "AC_COUPLING"

\* The configured impedance (lines 152-166).
SnapImpedance(inputImpedance) ==
    IF inputImpedance <= 50 THEN 50 ELSE 1000000

NoError == "none"

ConfigInit ==
    /\ PipelineIdle
    /\ fnPc = "setInputParameters"
    /\ fnIn \in [channel : ChannelLetters, coupling : CouplingStrings,
                 inputRange : RequestedRanges,
                 inputImpedance : RequestedImpedances]
    /\ fnOut = [inputControlCalls |-> <<>>, error |-> NoError,
                armed |-> FALSE, enqueued |-> 0]

\* The whole call: channel id, coupling mode, range and impedance ids, then
\* AlazarInputControl, which may itself fail.
SetInputParameters ==
    /\ fnPc = "setInputParameters"
    /\ LET channelID == getChannelID(fnIn.channel)
       IN  IF channelID = InvalidChannel
           THEN /\ fnOut' = [fnOut EXCEPT !.error = InvalidChannel]
                /\ fnPc' = "catch"
           ELSE IF ~ ValidCoupling(fnIn.coupling)
           THEN /\ fnOut' = [fnOut EXCEPT !.error = InvalidCoupling]
                /\ fnPc' = "catch"
           ELSE \E ok \in BOOLEAN :
                  /\ fnOut' = [fnOut EXCEPT
                       !.inputControlCalls = Append(@,
                           [channelID    |-> channelID,
                            couplingMode |-> CouplingMode(fnIn.coupling),
                            inputRange   |-> SnapRange(fnIn.inputRange),
                            inputImpedance |->
                                SnapImpedance(fnIn.inputImpedance)]),
                       !.error = IF ok THEN NoError
                                 ELSE "Error: AlazarInputControl failed"]
                  /\ fnPc' = IF ok THEN "configured" ELSE "catch"
    /\ UNCHANGED fnIn
    /\ UNCHANGED pipelineVars

\* The statement after the configuration in the try block: the acquisition
\* arms the board and delivers buffers.
AcquireAfterConfig ==
    /\ fnPc = "configured"
    /\ \E n \in 1..MaxBuffers :
         fnOut' = [fnOut EXCEPT !.armed = TRUE, !.enqueued = n]
    /\ fnPc' = "acquired"
    /\ UNCHANGED fnIn
    /\ UNCHANGED pipelineVars

\* catch (const std::exception& e): the message is printed, nothing else.
CatchConfigError ==
    /\ fnPc = "catch"
    /\ fnPc' = "returned"
    /\ UNCHANGED <<fnIn, fnOut>>
    /\ UNCHANGED pipelineVars

ConfigNext == SetInputParameters \/ AcquireAfterConfig \/ CatchConfigError

ConfigSpec == ConfigInit /\ [][ConfigNext]_vars

BadConfiguration ==
    \/ fnIn.channel \notin {"a", "A", "b", "B"}
    \/ fnIn.coupling \notin {"DC", "dc", "AC", "ac"}

\* C19: with a channel letter other than a/A/b/B or a coupling other than
\* DC/dc/AC/ac, setInputParameters raises its error with no input-control
\* call made to the board, and afterwards the capture is never armed and no
\* buffer is enqueued.
C19_BadConfigurationFailsFirst ==
    (fnPc # "setInputParameters" /\ BadConfiguration) =>
       /\ fnPc \in {"catch", "returned"}
       /\ fnOut.error \in {InvalidChannel, InvalidCoupling}
       /\ fnOut.inputControlCalls = <<>>
       /\ ~ fnOut.armed
       /\ fnOut.enqueued = 0

\* A valid channel with the coupling "Dc": the error was raised and caught.
C19_Witness ==
    /\ fnPc = "returned"
    /\ fnIn.channel = "b"
    /\ fnIn.coupling = "Dc"
    /\ fnOut.error = InvalidCoupling
    /\ fnOut.inputControlCalls = <<>>

\* ===================================================== decision agent
\* DecisionAgent::getDecision.  src/include/decisionAgent.hpp declares it;
\* its body is not among the sources, so the policy below follows the
\* documented decision rule: below minShots CONTINUE; else STEP when every
\* bin of the window around the LO has activeExclusionLine >= the target;
\* else STOP when the whole grid is excluded; else CONTINUE.
\* buffersAcquiredAtTuning counts the buffers decided on before the call.

\* Bins of the exclusion line.
NumBins == 3
\* Largest line / target value.
MaxLineValue == 2
\* Buffers decided on beyond minShots.
MaxExtraShots == 2

\* minShots of the documented example, of threadedTesting.cpp, and a small one.
MinShotsValues == {2, 10, 13}

LineValues == 0..MaxLineValue
Windows == {{2}, {1, 2}, 1..NumBins}

NoMinimumShots(count, minShots) == FALSE
BelowMinimumShots(count, minShots) == count < minShots

LocallyExcluded(line, targets, window) ==
    \A i \in window : line[i] >= targets[i]

getDecision(line, targets, window, count, minShots, gridExcluded) ==
    IF BelowMinimumShots(count, minShots) THEN "CONTINUE"
    ELSE IF LocallyExcluded(line, targets, window) THEN "STEP"
    ELSE IF gridExcluded THEN "STOP"
    ELSE "CONTINUE"

DecisionInit ==
    /\ PipelineIdle
    /\ fnPc = "getDecision"
    /\ fnIn \in [minShots : MinShotsValues,
                 inProgressTargets : [1..NumBins -> 1..MaxLineValue],
                 window : Windows]
    /\ fnOut = [buffersAcquiredAtTuning |-> 0,
                activeExclusionLine |-> [i \in 1..NumBins |-> 0],
                decisions |-> <<>>]

\* One buffer at the current tuning: the decision for the new exclusion
\* line, after which the buffer counts as acquired.  The run at this tuning
\* ends with the first STEP or STOP.
GetDecision ==
    /\ fnPc = "getDecision"
    /\ fnOut.buffersAcquiredAtTuning < fnIn.minShots + MaxExtraShots
    /\ \E line \in [1..NumBins -> LineValues], gridExcluded \in BOOLEAN :
         LET decision == getDecision(line, fnIn.inProgressTargets,
                                     fnIn.window,
                                     fnOut.buffersAcquiredAtTuning,
                                     fnIn.minShots, gridExcluded)
         IN  /\ fnOut' = [buffersAcquiredAtTuning |->
                              fnOut.buffersAcquiredAtTuning + 1,
                          activeExclusionLine |-> line,
                          decisions |-> Append(fnOut.decisions, decision)]
             /\ fnPc' = IF decision = "CONTINUE" THEN "getDecision"
                        ELSE "tuningDone"
    /\ UNCHANGED fnIn
    /\ UNCHANGED pipelineVars

DecisionNext == GetDecision

DecisionSpec == DecisionInit /\ [][DecisionNext]_vars

\* C20: the decisions for the first minShots buffers at a tuning are all
\* CONTINUE whatever the exclusion line; a later buffer whose line is at or
\* above the target in every bin of the window gets STEP.
C20_DecisionPolicy ==
    fnOut.decisions # <<>> =>
       LET k    == Len(fnOut.decisions)
           line == fnOut.activeExclusionLine
       IN  /\ \A j \in 1..Min(k, fnIn.minShots) :
                fnOut.decisions[j] = "CONTINUE"
           /\ (/\ k > fnIn.minShots
               /\ \A i \in fnIn.window : line[i] >= fnIn.inProgressTargets[i])
                => fnOut.decisions[k] = "STEP"

\* minShots = 10: ten CONTINUEs although the tenth line already met every
\* target, then STEP on the eleventh buffer.
C20_Witness ==
    /\ fnIn.minShots = 10
    /\ Len(fnOut.decisions) = 11
    /\ fnOut.decisions[10] = "CONTINUE"
    /\ fnOut.decisions[11] = "STEP"
    /\ \A i \in 1..NumBins :
         fnOut.activeExclusionLine[i] >= fnIn.inProgressTargets[i]

\* ===================================================== baseline state
\* DataProcessor::addRawSpectrumToRunningAverage, updateBaseline and
\* resetBaselining.  src/include/dataProcessing/dataProcessor.hpp:35-51
\* declares them and the state (numSpectra = 0, runningAverage and
\* currentBaseline empty); their bodies are not among the sources, so the
\* operations follow the documented baseline estimation: accumulation adds the
\* spectrum to runningAverage and counts it, the update low-pass filters
\* runningAverage / numSpectra into currentBaseline, reset discards both
\* arrays and the count.

\* Bins of a raw spectrum.
SpectrumLength == 2
\* Largest raw power.
MaxPower == 2
\* Calls made on one DataProcessor.
MaxBaselineCalls == 4

RawSpectra == [1..SpectrumLength -> 1..MaxPower]

InitialBaseline ==
    [numSpectra |-> 0, runningAverage |-> <<>>, currentBaseline |-> <<>>]

\* runningAverage[i] += P[i]; numSpectra++ (the first spectrum sizes the
\* array).
AddToRunningAverage(state, P) ==
    [state EXCEPT
       !.runningAverage = IF @ = <<>> THEN P
                          ELSE [i \in 1..Len(@) |-> @[i] + P[i]],
       !.numSpectra = @ + 1]

\* The low-pass filter: bin i of the output is a function of the whole mean
\* spectrum; the output has the length of the input.
LowPass(meanPower) ==
    [i \in 1..Len(meanPower) |-> [bin |-> i, filtered |-> meanPower]]

\* meanPower[i] = runningAverage[i] / numSpectra, as fractions.
UpdatedBaseline(state) ==
    [state EXCEPT
       !.currentBaseline =
          LowPass([i \in 1..Len(state.runningAverage) |->
                     [num |-> state.runningAverage[i],
                      den |-> state.numSpectra]])]

ResetKeepingCount(state) ==
    [state EXCEPT !.runningAverage = <<>>, !.currentBaseline = <<>>]
ResetBaseline(state) == InitialBaseline

BaselineInit ==
    /\ PipelineIdle
    /\ fnPc = "baseline"
    /\ fnIn = NoValue
    /\ fnOut = [state |-> InitialBaseline, calls |-> <<>>]

BaselineCall(call, state) ==
    /\ fnPc = "baseline"
    /\ Len(fnOut.calls) < MaxBaselineCalls
    /\ fnOut' = [state |-> state, calls |-> Append(fnOut.calls, call)]
    /\ UNCHANGED <<fnPc, fnIn>>
    /\ UNCHANGED pipelineVars

AddRawSpectrumToRunningAverage ==
    \E P \in RawSpectra :
       BaselineCall([op |-> "add", spectrum |-> P],
                    AddToRunningAverage(fnOut.state, P))

UpdateBaseline ==
    BaselineCall([op |-> "update", spectrum |-> <<>>],
                 UpdatedBaseline(fnOut.state))

ResetBaselining ==
    BaselineCall([op |-> "reset", spectrum |-> <<>>],
                 ResetBaseline(fnOut.state))

BaselineNext ==
    AddRawSpectrumToRunningAverage \/ UpdateBaseline \/ ResetBaselining

BaselineSpec == BaselineInit /\ [][BaselineNext]_vars

CallOps == [i \in 1..Len(fnOut.calls) |-> fnOut.calls[i].op]

ResetAddAddReset ==
    /\ CallOps = <<"reset", "add", "add", "reset">>
    /\ fnOut.calls[2].spectrum = fnOut.calls[3].spectrum

RescaledLength == 2
\* Largest shift of a contribution on the combined grid.
MaxBinOffset == 1
\* Contributions combined.
MaxContributions == 3

\* Rescaled excess values (they may be negative).
RescaledValues == {-1, 3}
\* Weights 1 / sigma^2 of a contribution: sigma = 1 and sigma = 1 / sqrt(2).
SourceWeights == {1, 2}

CombinedBins == 1..(RescaledLength + MaxBinOffset)

RECURSIVE Gcd(_, _)
Gcd(a, b) == IF b = 0 THEN a ELSE Gcd(b, a % b)

\* A fraction in lowest terms with a positive denominator.
Fraction(num, den) ==
    LET g == Gcd(Abs(num), den)
    IN  [num |-> num \div g, den |-> den \div g]

\* powers[j] += w * (x - powers[j]) / weightSum[j], weightSum[j] being the
\* updated sum.
RunningMeanUnweighted(power, x, w, weightSum) ==
    Fraction(power.num * weightSum + (x * power.den - power.num),
             power.den * weightSum)
RunningMean(power, x, w, weightSum) ==
    Fraction(power.num * weightSum + w * (x * power.den - power.num),
             power.den * weightSum)

\* sigmaCombined[j] = 1 / sqrt(weightSum[j]).
InvSqrt(weightSum) == [invSqrtOf |-> weightSum]

EmptyBin ==
    [powers |-> Fraction(0, 1), weightSum |-> 0, sigmaCombined |-> InvSqrt(0)]

\* One source bin added to its destination bin.
CombineBin(bin, x, w) ==
    LET weightSum == bin.weightSum + w
    IN  [powers        |-> RunningMean(bin.powers, x, w, weightSum),
         weightSum     |-> weightSum,
         sigmaCombined |-> InvSqrt(weightSum)]

\* Source bin i goes to destination bin offset + i.
CombineSpectrum(combined, rescaled) ==
    [j \in CombinedBins |->
       IF j - rescaled.offset \in 1..RescaledLength
       THEN CombineBin(combined[j], rescaled.powers[j - rescaled.offset],
                       rescaled.weight)
       ELSE combined[j]]

RescaledSpectra ==
    [offset : 0..MaxBinOffset,
     powers : {[i \in 1..RescaledLength |-> IF i % 2 = 1 THEN a ELSE b] :
                 a \in RescaledValues, b \in RescaledValues},
     weight : SourceWeights]

CombineInit ==
    /\ PipelineIdle
    /\ fnPc = "combine"
    /\ fnIn = <<>>
    /\ fnOut = [j \in CombinedBins |-> EmptyBin]

\* One call; fnIn keeps the contributions made so far, in call order.
AddRescaledToCombined ==
    /\ fnPc = "combine"
    /\ Len(fnIn) < MaxContributions
    /\ \E rescaled \in RescaledSpectra :
         /\ fnOut' = CombineSpectrum(fnOut, rescaled)
         /\ fnIn' = Append(fnIn, rescaled)
    /\ UNCHANGED fnPc
    /\ UNCHANGED pipelineVars

CombineNext == AddRescaledToCombined

CombineSpec == CombineInit /\ [][CombineNext]_vars

\* The contributions that reached bin j, as <<weight, value>> pairs.
ContributionsTo(j) ==
    LET hits == SelectSeq(fnIn,
                   LAMBDA r : j - r.offset \in 1..RescaledLength)
    IN  [k \in 1..Len(hits) |->
           <<hits[k].weight, hits[k].powers[j - hits[k].offset]>>]

RECURSIVE SumWeights(_)
SumWeights(c) == IF c = <<>> THEN 0 ELSE c[1][1] + SumWeights(Tail(c))

RECURSIVE SumWeighted(_)
SumWeighted(c) ==
    IF c = <<>> THEN 0 ELSE c[1][1] * c[1][2] + SumWeighted(Tail(c))

\* C22: every touched bin has weightSum equal to the sum of the contributed
\* weights and powers equal to the weighted mean of the contributed values
\* (both sums are symmetric in the contributions, so their order does not
\* matter); three identical spectra of sigma = 1 give powers equal to the
\* input, weightSum 3 and sigmaCombined 1 / sqrt(3).
C22_InverseVarianceMean ==
    /\ \A j \in CombinedBins :
         LET c == ContributionsTo(j)
         IN  IF c = <<>> THEN fnOut[j] = EmptyBin
             ELSE /\ fnOut[j].weightSum = SumWeights(c)
                  /\ fnOut[j].powers.num * SumWeights(c)
                       = fnOut[j].powers.den * SumWeighted(c)
                  /\ fnOut[j].sigmaCombined = InvSqrt(SumWeights(c))
    /\ (/\ Len(fnIn) = 3
        /\ fnIn[1] = fnIn[2] /\ fnIn[2] = fnIn[3]
        /\ fnIn[1].weight = 1) =>
          \A i \in 1..RescaledLength :
             LET bin == fnOut[fnIn[1].offset + i]
             IN  /\ bin.powers = [num |-> fnIn[1].powers[i], den |-> 1]
                 /\ bin.weightSum = 3
                 /\ bin.sigmaCombined = InvSqrt(3)

\* Three contributions of different weights and values met in one bin.
C22_Witness ==
    /\ Len(fnIn) = 3
    /\ ContributionsTo(2) = << <<2, 3>>, <<1, -1>>, <<2, -1>> >>
    /\ fnOut[2].weightSum = 5
    /\ fnOut[2].powers = [num |-> 3, den |-> 5]

\* ========================================================== DMA ring
AcqLoopPcs ==
    {"LoopTest", "CheckPause", "ForceTrigger", "Wait", "Convert", "PushLock",
     "Push", "Repost"}

\* C23: in the acquisition loop the buffer about to be waited on is
\* IoBufferArray[n mod BUFFER_COUNT] and is the head of the board's list,
\* which holds the buffers in ring order; the buffer being read and copied
\* out by the host is not posted; and the board holds BUFFER_COUNT or
\* BUFFER_COUNT - 1 buffers.
C23_RingDiscipline ==
    /\ acqPc = "Wait" =>
         /\ posted # <<>>
         /\ Head(posted) = buffersCompleted % BUFFER_COUNT
         /\ posted = [i \in 1..BUFFER_COUNT |->
                        (buffersCompleted + i - 1) % BUFFER_COUNT]
    /\ acqPc \in {"Convert", "PushLock", "Push"} =>
         /\ bufferIndex = buffersCompleted % BUFFER_COUNT
         /\ \A i \in 1..Len(posted) : posted[i] # bufferIndex
    /\ acqPc = "Repost" =>
         /\ acqBuffer = NoBuffer
         /\ \A i \in 1..Len(posted) : posted[i] # bufferIndex
    /\ acqPc \in AcqLoopPcs =>
         Len(posted) \in {BUFFER_COUNT, BUFFER_COUNT - 1}

\* The second trip round the ring: buffer 0 was waited on, copied, re-posted
\* behind buffer 1, and the third buffer is being read while not posted.
C23_Witness ==
    /\ acqPc = "Convert"
    /\ buffersCompleted = BUFFER_COUNT
    /\ bufferIndex = 0
    /\ Len(posted) = BUFFER_COUNT - 1
    /\ \A i \in 1..Len(posted) : posted[i] = i

\* ====================================================== fixed horizon
NonExceptionExits ==
    {"horizon", "pause", "waitFailed", "repostFailed", "keyPressed",
     "postFailed"}

AcqAfterSetComplete == {"Abort", "Destroy", "Done"}

\* C24: the pushes onto dataQueue (counted by buffersCompleted) never exceed
\* buffersPerAcquisition; after a non-exception end of the loop the stage has
\* set acquisitionComplete; the assignment is reached once, from the end of
\* the loop, and nothing is enqueued from then on.
C24_FixedHorizon ==
    /\ [](/\ buffersCompleted <= buffersPerAcquisition
          /\ Len(dataQueue) + Len(procPopped) = buffersCompleted)
    /\ []((acqPc \in AcqAfterSetComplete /\ acqExit # "exception") =>
            /\ acquisitionComplete
            /\ acqExit \in NonExceptionExits)
    /\ [][/\ acqPc' = "SetComplete" /\ acqPc # "SetComplete" =>
               /\ acqPc = "Complete" /\ acqExit \in NonExceptionExits
          /\ acqPc \in {"Complete", "SetComplete"} \cup AcqAfterSetComplete =>
               /\ acqPc' \notin AcqLoopPcs
               /\ acqPc \in AcqAfterSetComplete =>
                    acqPc' \in AcqAfterSetComplete
               /\ buffersCompleted' = buffersCompleted
               /\ Len(dataQueue') <= Len(dataQueue)]_vars

\* The horizon was reached: every buffer was pushed, the flag set, the stage
\* returned.
C24_Witness ==
    /\ acqPc = "Done" /\ acqExit = "horizon"
    /\ buffersPerAcquisition >= 2
    /\ buffersCompleted = buffersPerAcquisition
    /\ acquisitionComplete

\* ===================================================== divisor search
\* ATS::suggestBufferNumber step by step (src/src/instruments/ATS.cpp:232-266,
\* src/src/ATS.cpp:495-529): the initial estimate, then one action per
\* evaluation of the while condition.

\* One pass through the loop body (lines 256-262): the new buffer count.
SearchStepDownFirst(samples, buffers, spread) ==
    IF samples % (buffers - spread) = 0 THEN buffers - spread
    ELSE IF samples % (buffers + spread) = 0 THEN buffers + spread
    ELSE buffers
SearchStep(samples, buffers, spread) ==
    IF samples % (buffers + spread) = 0 THEN buffers + spread
    ELSE IF samples % (buffers - spread) = 0 THEN buffers - spread
    ELSE buffers

SearchInit ==
    /\ PipelineIdle
    /\ fnPc = "suggestBufferNumber"
    /\ fnIn \in [samplesPerAcquisition : SampleCounts,
                 bitsPerSample         : BitsPerSampleValues,
                 desiredBytesPerBuffer : DesiredBytesPerBuffer]
    /\ fnOut = NoValue

\* AlazarGetChannelInfo and the initial estimate (lines 240-252).
SuggestStart ==
    /\ fnPc = "suggestBufferNumber"
    /\ \E ok \in BOOLEAN :
         IF ok
         THEN LET initial == InitialBufferNumber(
                                 BytesPerSample(fnIn.bitsPerSample),
                                 fnIn.samplesPerAcquisition,
                                 fnIn.desiredBytesPerBuffer)
              IN  /\ fnOut' = [initial |-> initial,
                               buffersPerAcquisition |-> initial,
                               spread |-> 1]
                  /\ fnPc' = "searching"
         ELSE /\ fnOut' = NoValue
              /\ fnPc' = "suggestError"
    /\ UNCHANGED fnIn
    /\ UNCHANGED pipelineVars

\* One evaluation of the while condition: return, or one pass through the
\* body.  A modulo by zero is undefined behaviour; it is recorded as such.
SuggestIterate ==
    /\ fnPc = "searching"
    /\ LET samples == fnIn.samplesPerAcquisition
           buffers == fnOut.buffersPerAcquisition
           spread  == fnOut.spread
       IN  IF buffers = 0 THEN fnPc' = "undefined" /\ UNCHANGED fnOut
           ELSE IF samples % buffers = 0
           THEN fnPc' = "suggested" /\ UNCHANGED fnOut
           ELSE IF \/ buffers + spread = 0
                   \/ /\ samples % (buffers + spread) # 0
                      /\ buffers - spread = 0
           THEN fnPc' = "undefined" /\ UNCHANGED fnOut
           ELSE /\ fnOut' = [fnOut EXCEPT
                               !.buffersPerAcquisition =
                                   SearchStep(samples, buffers, spread),
                               !.spread = spread + 1]
                /\ UNCHANGED fnPc
    /\ UNCHANGED fnIn
    /\ UNCHANGED pipelineVars

SearchNext == SuggestStart \/ SuggestIterate

SearchSpec == SearchInit /\ [][SearchNext]_vars

\* The thread running the call keeps running.
SearchFairSpec == SearchSpec /\ WF_vars(SearchNext)

Divides(b, n) == b >= 1 /\ n % b = 0

\* C25: the search returns, never takes a modulo by zero, and returns the
\* divisor of samples nearest to the initial estimate B0: B0 + s or B0 - s
\* for the smallest s >= 0 for which one of them divides samples, B0 + s
\* when both do.
C25_NearestDivisor ==
    /\ <>(fnPc \in {"suggested", "suggestError"})
    /\ [](fnPc # "undefined")
    /\ [](fnPc = "searching" => fnOut.spread <= fnOut.initial)
    /\ [](fnPc = "suggested" =>
            LET n  == fnIn.samplesPerAcquisition
                B0 == (BytesPerSample(fnIn.bitsPerSample) * n * 2)
                         \div fnIn.desiredBytesPerBuffer
                B1 == IF B0 < 1 THEN 1 ELSE B0
                B  == fnOut.buffersPerAcquisition
                s  == Abs(B - B1)
            IN  /\ fnOut.initial = B1
                /\ Divides(B, n)
                /\ \A t \in 0..(s - 1) :
                     ~ Divides(B1 + t, n) /\ ~ Divides(B1 - t, n)
                /\ B < B1 => ~ Divides(B1 + s, n)
                /\ B = suggestBufferNumber(BytesPerSample(fnIn.bitsPerSample),
                                           n, fnIn.desiredBytesPerBuffer))

\* 7.5e6 one-byte samples with the 2 MB target: B0 = 7 does not divide, 8 and
\* 6 both do, and the search returns 8.
C25_Witness ==
    /\ fnPc = "suggested"
    /\ fnIn.samplesPerAcquisition = TestedSamples
    /\ fnIn.bitsPerSample = 8
    /\ fnIn.desiredBytesPerBuffer = 2000000
    /\ fnOut.initial = 7
    /\ TestedSamples % 6 = 0
    /\ fnOut.buffersPerAcquisition = 8

\* ============================================== parameter consistency
\* C26: after a successful setAcquisitionParameters, samplesPerBuffer is the
\* requested count div buffersPerAcquisition, samplesPerAcquisition is
\* samplesPerBuffer * buffersPerAcquisition and at most the request,
\* recordsPerAcquisition is buffersPerAcquisition, and bytesPerBuffer is
\* bytesPerSample * samplesPerBuffer * 2, so the stored acquisition is
\* buffersPerAcquisition buffers of that one size.
C26_ParamsConsistent ==
    fnPc = "paramsSet" =>
       LET n == fnIn.samplesPerAcquisition
           B == fnOut.buffersPerAcquisition
       IN  /\ B >= 1
           /\ fnOut.samplesPerBuffer = n \div B
           /\ fnOut.samplesPerAcquisition = fnOut.samplesPerBuffer * B
           /\ fnOut.samplesPerAcquisition <= n
           /\ fnOut.recordsPerAcquisition = B
           /\ fnOut.bytesPerSample = (fnIn.bitsPerSample + 7) \div 8
           /\ fnOut.bytesPerBuffer
                = fnOut.bytesPerSample * fnOut.samplesPerBuffer * 2
           /\ fnOut.bytesPerBuffer * B
                = fnOut.bytesPerSample * fnOut.samplesPerAcquisition * 2

\* 8 samples of 16 bits in 3 buffers: 2 samples and 8 bytes per buffer.
C26_Witness ==
    /\ fnPc = "paramsSet"
    /\ fnIn.samplesPerAcquisition = 8
    /\ fnIn.buffersPerAcquisition = 3
    /\ fnIn.bitsPerSample = 16
    /\ fnOut.samplesPerBuffer = 2
    /\ fnOut.samplesPerAcquisition = 6
    /\ fnOut.recordsPerAcquisition = 3
    /\ fnOut.bytesPerBuffer = 8

\* ===================================================== raw dump numbering
\* C27 as stated: saveDataToBin writes the k-th buffer it pops to
\* output/Buffer<k>.bin, k = 1, 2, ... without gaps or repeats, so that
\* Buffer<k>.bin holds the k-th acquired buffer and every buffer is written
\* to exactly one file.
C27_EveryBufferInItsFile ==
    \A k \in 1..numSaved :
        /\ files[k].name = k
        /\ files[k].opened
        /\ files[k].data = savePopped[k]
        /\ files[k].data = k

\* C27: the k-th buffer popped from dataSavingQueue is given the name
\* Buffer<k>.bin, k = 1, 2, ... without gaps or repeats, and it is the k-th
\* acquired buffer; when the file opens it holds exactly that buffer and no
\* other file does; when the open fails the buffer is written to no file and
\* the number k is still used up.
C27_FileNumbering ==
    /\ Len(files) = numSaved
    /\ Len(savePopped) = numSaved + (IF savePc = "Write" THEN 1 ELSE 0)
    /\ \A k \in 1..Len(savePopped) : savePopped[k] = k
    /\ \A k \in 1..numSaved :
          /\ files[k].name = k
          /\ files[k].opened => files[k].data = savePopped[k]
          /\ ~files[k].opened => files[k].data = 0
    /\ \A j, k \in 1..numSaved :
          (files[j].opened /\ files[k].opened /\ files[j].data = files[k].data)
             => j = k

\* Three buffers saved; the open of Buffer2.bin failed, Buffer3.bin still
\* holds the third buffer.
C27_Witness ==
    /\ numSaved = 3
    /\ files[1].opened /\ files[1].data = 1
    /\ ~files[2].opened
    /\ files[3].name = 3 /\ files[3].opened /\ files[3].data = 3

\* ============================================================ decision stop
\* decisionMakingThread has stopped the scan (both flags set under
\* syncFlags.mutex, thread returned) and the acquisition loop has left on
\* the pause signal, short of its horizon.
DecisionStopTaken ==
    /\ decPc = "Done"
    /\ buffersProcessed >= DecisionStopCount
    /\ acquisitionComplete /\ pauseDataCollection
    /\ acqExit = "pause"
    /\ buffersCompleted < buffersPerAcquisition

\* No thread can take another step.
PipelineAtRest == ~ENABLED Next

\* C28 as stated: after decisionMakingThread has consumed its
\* DecisionStopCount-th buffer, set both flags under syncFlags.mutex and
\* exited, the pipeline drains: when it comes to rest every buffer that was
\* on dataQueue, dataSavingQueue or processedDataQueue has been consumed and
\* all threads have returned.
C28_DecisionStopDrains ==
    (DecisionStopTaken /\ PipelineAtRest) =>
        /\ AcqReturned /\ AllConsumersReturned
        /\ dataQueue = <<>>
        /\ dataSavingQueue = <<>>
        /\ processedDataQueue = <<>>

\* ================================================== range and impedance
\* The ranges (mV) and impedances (ohm) that have an id in the code.
SmallRanges == {200, 400, 800}
BoardRanges == SmallRanges \cup {2000}
BoardImpedances == {50, 1000000}

\* C29: every AlazarInputControl call of setInputParameters carries, for a
\* requested range r, the smallest of 0.2, 0.4, 0.8 V that is >= r, and 2 V
\* for every r > 0.8 V; for a requested impedance <= 50 it carries 50 ohm and
\* for anything larger 1 Mohm; no other range or impedance is sent.
C29_RangeAndImpedanceSnapping ==
    \A i \in 1..Len(fnOut.inputControlCalls) :
        LET call == fnOut.inputControlCalls[i]
            r    == fnIn.inputRange
            z    == fnIn.inputImpedance
        IN  /\ call.inputRange \in BoardRanges
            /\ call.inputImpedance \in BoardImpedances
            /\ r <= 800 =>
                  /\ call.inputRange \in SmallRanges
                  /\ call.inputRange >= r
                  /\ \A s \in SmallRanges : s >= r => call.inputRange <= s
            /\ r > 800 => call.inputRange = 2000
            /\ z <= 50 => call.inputImpedance = 50
            /\ z > 50 => call.inputImpedance = 1000000

\* A request of exactly 0.4 V and 75 ohm is sent as 0.4 V and 1 Mohm.
C29_Witness ==
    /\ fnPc = "configured"
    /\ fnIn.inputRange = 400
    /\ fnIn.inputImpedance = 75
    /\ Len(fnOut.inputControlCalls) = 1
    /\ fnOut.inputControlCalls[1].inputRange = 400
    /\ fnOut.inputControlCalls[1].inputImpedance = 1000000

\* ==================================================== spectra queue file
\* saveSpectraFromQueue (src/src/util/fileIO.cpp:172-203): one call on a queue
\* of spectra, followed step by step: the open and the first line, then one
\* loop iteration per spectrum.

\* Longest spectraQueue explored.
MaxQueueLen == 2

\* First elements of the explored vectors: one printed exactly, one rounded.
QueueValues == {5, 1000005}

\* The vector of n elements a+1, ..., a+n.
Ramp(a, n) == [i \in 1..n |-> a + i]

QueueVectors ==
    {Ramp(a, n) : a \in QueueValues, n \in 0..MaxSpectrumLen}

QueueSpectra == [freqAxis : QueueVectors, powers : QueueVectors]

SpectraQueues == UNION {[1..n -> QueueSpectra] : n \in 0..MaxQueueLen}

\* The spectrum whose frequency axis becomes the first line (line 176).
AxisSourceBack(queue) == queue[Len(queue)]
AxisSource(queue) == QueueFront(queue)

QueueFileInit ==
    /\ PipelineIdle
    /\ fnPc = "saveSpectraFromQueue"
    /\ fnIn \in SpectraQueues
    /\ fnOut = [opened |-> FALSE, text |-> <<>>, spectraQueue |-> fnIn]

\* std::ofstream dataFile(filename) and the first line (lines 173-185).  An
\* unopened file only produces a message (lines 200-202).  freqAxis[0] of an
\* empty axis is read outside the vector: the outcome is not defined.
QueueFileOpen ==
    /\ fnPc = "saveSpectraFromQueue"
    /\ \E opened \in BOOLEAN :
         IF ~opened
         THEN /\ fnPc' = "unableToOpen"
              /\ UNCHANGED fnOut
         ELSE IF fnOut.spectraQueue = <<>>
         THEN /\ fnOut' = [fnOut EXCEPT !.opened = TRUE,
                                        !.text = <<RowSeparator>>]
              /\ fnPc' = "writeRows"
         ELSE IF AxisSource(fnOut.spectraQueue).freqAxis = <<>>
         THEN /\ fnOut' = [fnOut EXCEPT !.opened = TRUE]
              /\ fnPc' = "undefined"
         ELSE /\ fnOut' = [fnOut EXCEPT
                  !.opened = TRUE,
                  !.text = WriteCells(AxisSource(fnOut.spectraQueue).freqAxis, 1)
                             \o <<RowSeparator>>]
              /\ fnPc' = "writeRows"
    /\ UNCHANGED fnIn
    /\ UNCHANGED pipelineVars

\* One iteration of while (!spectraQueue.empty()): front(), the powers line,
\* pop() (lines 188-197).  powers[0] of an empty vector is read outside the
\* vector.
QueueFileRow ==
    /\ fnPc = "writeRows"
    /\ fnOut.spectraQueue # <<>>
    /\ LET spectrum == QueueFront(fnOut.spectraQueue)
       IN  IF spectrum.powers = <<>>
           THEN /\ fnPc' = "undefined"
                /\ UNCHANGED fnOut
           ELSE /\ fnOut' = [fnOut EXCEPT
                      !.text = @ \o WriteCells(spectrum.powers, 1)
                                 \o <<RowSeparator>>,
                      !.spectraQueue = QueuePop(@)]
                /\ fnPc' = "writeRows"
    /\ UNCHANGED fnIn
    /\ UNCHANGED pipelineVars

\* The loop ends on the empty queue; dataFile.close() (line 199).
QueueFileClose ==
    /\ fnPc = "writeRows"
    /\ fnOut.spectraQueue = <<>>
    /\ fnPc' = "saved"
    /\ UNCHANGED <<fnIn, fnOut>>
    /\ UNCHANGED pipelineVars

QueueFileNext == QueueFileOpen \/ QueueFileRow \/ QueueFileClose

QueueFileSpec == QueueFileInit /\ [][QueueFileNext]_vars

\* The lines of the file written so far.
QueueFileLines == SplitAt(fnOut.text, "\n")

\* C30: saveSpectraFromQueue (on spectra whose vectors are not empty) drains
\* its queue in FIFO order: line 1 is the frequency axis of the front
\* spectrum (an empty line when the queue is empty), line k+1 is the powers
\* of the k-th spectrum of the queue, the queue is empty on return; when the
\* file cannot be opened the queue is left unchanged and nothing is written.
C30_QueueDrainedInOrder ==
    /\ fnPc = "unableToOpen" =>
          /\ fnOut.spectraQueue = fnIn
          /\ fnOut.text = <<>>
    /\ fnPc = "writeRows" =>
          \E done \in 0..Len(fnIn) :
             /\ fnOut.spectraQueue = SubSeq(fnIn, done + 1, Len(fnIn))
             /\ Len(QueueFileLines) = 1 + done
    /\ fnPc = "saved" =>
          /\ fnOut.spectraQueue = <<>>
          /\ fnOut.text # <<>> /\ IsChar(fnOut.text[Len(fnOut.text)], "\n")
          /\ Len(QueueFileLines) = 1 + Len(fnIn)
          /\ QueueFileLines[1] =
                IF fnIn = <<>> THEN <<>> ELSE WriteCells(fnIn[1].freqAxis, 1)
          /\ \A k \in 1..Len(fnIn) :
                QueueFileLines[k + 1] = WriteCells(fnIn[k].powers, 1)

\* Two spectra with different axes and powers: the file is the first axis,
\* then the two power lines in queue order.
C30_Witness ==
    /\ fnPc = "saved"
    /\ Len(fnIn) = 2
    /\ fnIn[1].freqAxis = Ramp(5, 2)
    /\ fnIn[2].freqAxis = Ramp(1000005, 1)
    /\ fnIn[1].powers = Ramp(1000005, 2)
    /\ fnIn[2].powers = Ramp(5, 1)
    /\ Len(QueueFileLines) = 3
    /\ QueueFileLines[1] = <<FormatDouble(6), Char(","), FormatDouble(7)>>
    /\ QueueFileLines[3] = <<FormatDouble(6)>>

\* ================================================================ readCSV
\* readCSV (src/src/util/fileIO.cpp:14-45) on a text file, followed line by
\* line: one step per iteration of while (std::getline(file, line)).

\* Most lines in an explored file.
MaxCsvLines == 3

\* A cell holding the number v, and a cell that std::stod rejects.
NumberCell(v) == [isNumber |-> TRUE, value |-> v]
BadCell == [isNumber |-> FALSE, value |-> 0]

\* The explored rows: an empty line, one number, two numbers (one of them
\* rounded when printed), a cell that is no number.
CsvRows ==
    {<<>>, <<NumberCell(5)>>, <<NumberCell(1000005), NumberCell(-42)>>,
     <<BadCell>>}

CsvFiles == UNION {[1..n -> CsvRows] : n \in 0..MaxCsvLines}

\* The text of one line: the cells separated by commas.
RECURSIVE CsvLineText(_, _)
CsvLineText(row, i) ==
    IF i > Len(row) THEN <<>>
    ELSE (IF i = 1 THEN <<>> ELSE <<Char(",")>>)
           \o <<IF row[i].isNumber THEN FormatDouble(row[i].value)
                ELSE Char("x")>>
           \o CsvLineText(row, i + 1)

\* The text of a file: the lines separated by newlines, the last one ended
\* by a newline or not.
RECURSIVE CsvFileText(_, _, _)
CsvFileText(rows, i, trailingNewline) ==
    IF i > Len(rows) THEN <<>>
    ELSE CsvLineText(rows[i], 1)
           \o (IF i < Len(rows) \/ trailingNewline THEN <<Char("\n")>>
               ELSE <<>>)
           \o CsvFileText(rows, i + 1, trailingNewline)

\* std::getline(file, line): fails at the end of the input, otherwise takes
\* the characters up to the next newline and discards the newline.
GetLine(text) ==
    IF \E k \in 1..Len(text) : IsChar(text[k], "\n")
    THEN LET k == CHOOSE k \in 1..Len(text) :
                    /\ IsChar(text[k], "\n")
                    /\ \A j \in 1..(k - 1) : ~ IsChar(text[j], "\n")
         IN  [line |-> SubSeq(text, 1, k - 1),
              rest |-> SubSeq(text, k + 1, Len(text))]
    ELSE [line |-> text, rest |-> <<>>]

\* if (maxLines > 0 && linesRead >= maxLines) break (line 39).
StopReadingAfter(maxLines, linesRead) == maxLines > 0 /\ linesRead > maxLines
StopReading(maxLines, linesRead) == maxLines > 0 /\ linesRead >= maxLines

CsvInit ==
    /\ PipelineIdle
    /\ fnPc = "readCSV"
    /\ fnIn \in [rows : CsvFiles, trailingNewline : BOOLEAN,
                 exists : BOOLEAN, maxLines : (-1)..MaxLinesArg]
    /\ fnOut = [opened |-> FALSE, rest |-> <<>>, data |-> <<>>,
                linesRead |-> 0]

\* std::ifstream file(filename); if (!file) return data (lines 17-21).
CsvOpen ==
    /\ fnPc = "readCSV"
    /\ \E opened \in {fnIn.exists, FALSE} :
         IF opened
         THEN /\ fnOut' = [fnOut EXCEPT
                    !.opened = TRUE,
                    !.rest = CsvFileText(fnIn.rows, 1, fnIn.trailingNewline)]
              /\ fnPc' = "getline"
         ELSE /\ fnPc' = "returned"
              /\ UNCHANGED fnOut
    /\ UNCHANGED fnIn
    /\ UNCHANGED pipelineVars

\* One iteration of the loop (lines 26-42): the line is cut into cells, each
\* cell converted by std::stod (which throws on a cell that is no number),
\* the row appended, linesRead counted and the limit tested.
CsvReadLine ==
    /\ fnPc = "getline"
    /\ fnOut.rest # <<>>
    /\ LET got   == GetLine(fnOut.rest)
           cells == SplitAt(got.line, ",")
       IN  IF \E k \in 1..Len(cells) : ~ CellParses(cells[k])
           THEN /\ fnOut' = [fnOut EXCEPT !.rest = got.rest]
                /\ fnPc' = "threw"
           ELSE /\ fnOut' = [fnOut EXCEPT
                      !.rest = got.rest,
                      !.data = Append(@, [k \in 1..Len(cells) |->
                                            ParseDouble(cells[k][1])]),
                      !.linesRead = @ + 1]
                /\ fnPc' = IF StopReading(fnIn.maxLines, fnOut.linesRead + 1)
                           THEN "returned" ELSE "getline"
    /\ UNCHANGED fnIn
    /\ UNCHANGED pipelineVars

\* std::getline fails at the end of the file: return data (line 44).
CsvEndOfFile ==
    /\ fnPc = "getline"
    /\ fnOut.rest = <<>>
    /\ fnPc' = "returned"
    /\ UNCHANGED <<fnIn, fnOut>>
    /\ UNCHANGED pipelineVars

CsvNext == CsvOpen \/ CsvReadLine \/ CsvEndOfFile

CsvSpec == CsvInit /\ [][CsvNext]_vars

\* The lines of the explored file: an empty last line that no newline ends
\* is no line.
CsvLines ==
    LET rows == fnIn.rows
    IN  IF rows # <<>> /\ rows[Len(rows)] = <<>> /\ ~ fnIn.trailingNewline
        THEN SubSeq(rows, 1, Len(rows) - 1)
        ELSE rows

\* The value std::stod reads from the six-digit text of v.
ReadBack(v) == ParseDouble(FormatDouble(v))

\* C31: readCSV returns no rows and throws nothing when the file cannot be
\* opened; otherwise, when it returns, it returns every line for
\* maxLines <= 0 and exactly min(maxLines, number of lines) rows for
\* maxLines > 0, row k being line k of the file.
C31_ReadCsvRows ==
    /\ (fnPc \in {"returned", "threw"} /\ ~ fnOut.opened) =>
          fnPc = "returned" /\ fnOut.data = <<>>
    /\ (fnPc = "returned" /\ fnOut.opened) =>
          LET count == IF fnIn.maxLines <= 0 THEN Len(CsvLines)
                       ELSE Min(fnIn.maxLines, Len(CsvLines))
          IN  /\ Len(fnOut.data) = count
              /\ \A k \in 1..count :
                    /\ Len(fnOut.data[k]) = Len(CsvLines[k])
                    /\ \A i \in 1..Len(CsvLines[k]) :
                          fnOut.data[k][i] = ReadBack(CsvLines[k][i].value)

\* Three lines, the second one empty, read with maxLines = 2: the first two
\* lines come back, the third is not read.
C31_Witness ==
    /\ fnPc = "returned" /\ fnOut.opened
    /\ fnIn.maxLines = 2
    /\ fnIn.rows = << <<NumberCell(1000005), NumberCell(-42)>>, <<>>,
                     <<NumberCell(5)>> >>
    /\ fnOut.data = << <<1000000, -42>>, <<>> >>

\* ======================================================= buffer ownership
\* The ids of the buffers a thread variable or a queue holds.
HeldIn(buffer) == IF buffer = NoBuffer THEN <<>> ELSE <<buffer.id>>
IdsOf(queue) == [k \in 1..Len(queue) |-> queue[k].id]

\* Every place that holds a raw voltage buffer, and every place that holds
\* an FFT output.
RawHolders ==
    HeldIn(acqBuffer) \o IdsOf(dataQueue) \o HeldIn(complexOutput)
      \o IdsOf(dataSavingQueue) \o HeldIn(rawData)
FftHolders ==
    HeldIn(procData) \o IdsOf(processedDataQueue) \o HeldIn(processedOutput)

NoRepeats(ids) ==
    \A j, k \in 1..Len(ids) : ids[j] = ids[k] => j = k

\* C32 as stated: every raw buffer and every FFT output is held by at most
\* one queue or thread at a time, is freed exactly once (raw buffers by
\* saveDataToBin, FFT outputs by decisionMakingThread) and is not used after
\* that, and when all threads have exited none of them is still allocated.
C32_BufferOwnership ==
    /\ NoRepeats(RawHolders)
    /\ NoRepeats(FftHolders)
    /\ NoRepeats(savePopped)
    /\ NoRepeats(IdsOf(decPopped))
    /\ \A k \in 1..numSaved : \A j \in 1..Len(RawHolders) :
          RawHolders[j] # savePopped[k]
    /\ (AcqReturned /\ AllConsumersReturned) =>
          /\ RawHolders = <<>>
          /\ FftHolders = <<>>
          /\ numSaved = buffersCompleted
          /\ buffersProcessed = numProcessed

\* ======================================================= locking discipline
PipelineThreads == {"acq", "proc", "save", "dec"}

ThreadPc(t) ==
    CASE t = "acq" -> acqPc [] t = "proc" -> procPc
      [] t = "save" -> savePc [] t = "dec" -> decPc

\* The positions at which a thread reads or writes one of the three queues,
\* and those at which it reads or writes one of the two flags.
QueueAccessPcs(t) ==
    CASE t = "acq" -> {"Push"}
      [] t = "proc" -> {"Inner", "Push", "Check"}
      [] t = "save" -> {"Inner", "Check"}
      [] t = "dec" -> {"Inner"}
FlagAccessPcs(t) ==
    CASE t = "acq" -> {"CheckPause", "SetComplete"}
      [] t = "proc" -> {"Check"}
      [] t = "save" -> {"Check"}
      [] t = "dec" -> {"Stop", "Check"}

\* The positions at which a thread asks for sharedData.mutex.
DataLockWaitPcs(t) ==
    CASE t = "acq" -> {"PushLock"}
      [] t = "proc" -> {"Lock", "Blocked", "PushLock", "Relock"}
      [] t = "save" -> {"Lock", "Blocked", "Relock"}
      [] t = "dec" -> {"Lock", "Blocked", "Relock"}

ThreadStep(t) ==
    CASE t = "acq" -> Acquisition [] t = "proc" -> Processing
      [] t = "save" -> Saving [] t = "dec" -> Decision

\* Accesses happen under the right mutex, and a thread asking for
\* sharedData.mutex holds neither mutex.
LocksHeldAtAccess ==
    \A t \in PipelineThreads :
        /\ ThreadPc(t) \in QueueAccessPcs(t) => dataMutex = t
        /\ ThreadPc(t) \in FlagAccessPcs(t) => flagMutex = t
        /\ ThreadPc(t) \in DataLockWaitPcs(t) =>
              (flagMutex # t /\ dataMutex # t)

\* The holder of syncFlags.mutex can always take its next step, and so can
\* the holder of sharedData.mutex once syncFlags.mutex is free: the two
\* mutexes never block each other.
NoMutexDeadlock ==
    \A t \in PipelineThreads :
        /\ flagMutex = t => ENABLED ThreadStep(t)
        /\ (dataMutex = t /\ flagMutex = NoThread) => ENABLED ThreadStep(t)

\* A queue or a flag changes only in a step of the thread that holds its
\* mutex.
WritesUnderLock ==
    /\ (\/ dataQueue' # dataQueue
        \/ dataSavingQueue' # dataSavingQueue
        \/ processedDataQueue' # processedDataQueue) =>
          \E t \in PipelineThreads :
             dataMutex = t /\ ThreadPc(t) \in QueueAccessPcs(t)
    /\ (\/ pauseDataCollection' # pauseDataCollection
        \/ acquisitionComplete' # acquisitionComplete) =>
          \E t \in PipelineThreads :
             flagMutex = t /\ ThreadPc(t) \in FlagAccessPcs(t)

\* C33: every access to dataQueue, dataSavingQueue and processedDataQueue is
\* made by the holder of sharedData.mutex and every access to the two flags
\* by the holder of syncFlags.mutex; no thread asks for sharedData.mutex
\* while holding syncFlags.mutex; no deadlock on the two mutexes is
\* reachable.
C33_LockingDiscipline ==
    /\ [](LocksHeldAtAccess /\ NoMutexDeadlock)
    /\ [][WritesUnderLock]_vars

\* saveDataToBin holds both mutexes, in the order sharedData.mutex then
\* syncFlags.mutex, while processingThread asks for sharedData.mutex.
C33_Witness ==
    /\ savePc = "Check" /\ dataMutex = "save" /\ flagMutex = "save"
    /\ procPc = "PushLock"
    /\ acqPc = "PushLock"

\* ========================================================= flag monotony
\* C34: once acquisitionComplete or pauseDataCollection is true, no step of
\* the acquisition, processing, saving or decision thread makes it false
\* again.
C34_FlagsMonotonic ==
    [][/\ acquisitionComplete => acquisitionComplete'
       /\ pauseDataCollection => pauseDataCollection']_vars

\* The decision stop set both flags, the acquisition stage then wrote
\* acquisitionComplete once more on its way out; both are still set.
C34_Witness ==
    /\ buffersProcessed >= DecisionStopCount /\ decPc = "Done"
    /\ acqExit = "waitFailed" /\ ~success /\ acqPc \in AcqAfterSetComplete
    /\ acquisitionComplete /\ pauseDataCollection

\* ===================================================== stored sample rate
\* C35 as stated: after setAcquisitionParameters has returned, the stored
\* acquisitionParams.sampleRate equals the realized rate returned by
\* setExternalSampleClock, for every requested rate.
C35_StoredRateIsRealized ==
    fnPc = "paramsSet" =>
        fnOut.sampleRate * fnOut.realSampleRate.den = fnOut.realSampleRate.num

\* ==================================================== conversion range
\* The acquisition that follows a successful setAcquisitionParameters
\* converts a code with acquisitionParams.inputRange (lines 789-790).
ConvertWithStoredRange ==
    /\ fnPc = "paramsSet"
    /\ \E code \in {0, ZeroVoltCode, FullScaleCode} :
         fnOut' = [params |-> fnOut,
                   code   |-> code,
                   volts  |-> CodeToVolts(code, fnOut.inputRange)]
    /\ fnPc' = "converted"
    /\ UNCHANGED fnIn
    /\ UNCHANGED pipelineVars

RangeNext == SetAcquisitionParameters \/ ConvertWithStoredRange

RangeSpec == ParamsInit /\ [][RangeNext]_vars

\* C36 as stated: the range used to convert codes to volts equals the range
\* configured on the board, for every requested inputRange, so the code
\* 0xFFFF converts to the board's positive full scale.
C36_ConversionUsesBoardRange ==
    fnPc = "converted" =>
        /\ fnOut.params.inputRange = fnOut.params.boardRange
        /\ fnOut.code = FullScaleCode =>
              fnOut.volts = fnOut.params.boardRange * VoltsDenominator

\* ===================================================== 32-bit buffer sizing
\* The product of suggestBufferNumber (src/src/instruments/ATS.cpp:236-252)
\* in U32 arithmetic.  A U32 is kept as two 16-bit halves, value
\* hi * WordBase + lo, so that every intermediate result is exact.
WordBase == 65536

\* High and low halves of the explored samplesPerAcquisition: 7 500 000 is
\* 114 * 65536 + 28896; the others lie around 2^30, 2^31 and 2^32 - 1.
SizingHighHalves == {0, 114, 16383, 16384, 32767, 32768, 49152, 65535}
SizingLowHalves == {0, 1, 28896, 65535}

\* v * k without any reduction: the high half may exceed 16 bits.
TimesExact(v, k) ==
    [hi |-> v.hi * k + (v.lo * k) \div WordBase, lo |-> (v.lo * k) % WordBase]

\* The value an unsigned 32-bit result keeps.
WrapU32(v) == [hi |-> v.hi % WordBase, lo |-> v.lo]

\* bytesPerSample * samplesPerAcquisition * channelCount, each product a U32
\* (line 252).
SizingProduct(bytesPerSample, samples) ==
    WrapU32(TimesExact(WrapU32(TimesExact(samples, bytesPerSample)),
                       ChannelCount))

\* A U32 divided by an even int: both halved first, which changes nothing
\* in the truncated quotient.
DivideU32(v, d) == (v.hi * (WordBase \div 2) + v.lo \div 2) \div (d \div 2)

SizingInit ==
    /\ PipelineIdle
    /\ fnPc = "suggestBufferNumber"
    /\ fnIn \in [samplesPerAcquisition :
                    [hi : SizingHighHalves, lo : SizingLowHalves],
                 bitsPerSample : BitsPerSampleValues,
                 desiredBytesPerBuffer : DesiredBytesPerBuffer]
    /\ fnOut = NoValue

\* AlazarGetChannelInfo, bytesPerSample and the first buffersPerAcquisition
\* (lines 240-252).
SizingSuggest ==
    /\ fnPc = "suggestBufferNumber"
    /\ \E ok \in BOOLEAN :
         IF ~ok
         THEN /\ fnPc' = "suggestError"
              /\ UNCHANGED fnOut
         ELSE LET bytes   == BytesPerSample(fnIn.bitsPerSample)
                  product == SizingProduct(bytes, fnIn.samplesPerAcquisition)
              IN  /\ fnOut' = [bytesPerSample |-> bytes,
                               product |-> product,
                               buffersPerAcquisition |->
                                  Max(1, DivideU32(product,
                                            fnIn.desiredBytesPerBuffer))]
                  /\ fnPc' = "sized"
    /\ UNCHANGED fnIn
    /\ UNCHANGED pipelineVars

SizingNext == SizingSuggest

SizingSpec == SizingInit /\ [][SizingNext]_vars

\* C37 as stated: for every U32 samplesPerAcquisition and bytesPerSample 1
\* or 2, the product bytesPerSample * samplesPerAcquisition * 2 computed in
\* suggestBufferNumber is the mathematical product: it is not reduced
\* modulo 2^32.
C37_NoWraparound ==
    fnPc = "sized" =>
        fnOut.product =
           TimesExact(TimesExact(fnIn.samplesPerAcquisition,
                                 fnOut.bytesPerSample), 2)

\* ======================================================= findClosestIndex
\* findClosestIndex (src/src/util/dataProcessingUtils.cpp:105-118), followed
\* through its loop.  Indices are the code's, from 0: vec[i] of the code is
\* vec[i + 1] here.

\* Longest vector and largest element explored; targets lie between -1 and
\* MaxVecValue + 1, so that ties and targets outside the vector occur.
MaxVecLen == 3
MaxVecValue == 2

FindVectors == UNION {[1..n -> 0..MaxVecValue] : n \in 0..MaxVecLen}
FindTargets == (-1)..(MaxVecValue + 1)

\* if (difference < minDifference) (line 111).
CloserOrEqual(difference, minDifference) == difference <= minDifference
Closer(difference, minDifference) == difference < minDifference

FindInit ==
    /\ PipelineIdle
    /\ fnPc = "findClosestIndex"
    /\ fnIn \in [vec : FindVectors, target : FindTargets]
    /\ fnOut = NoValue

\* minDifference = |vec[0] - target|, closestIndex = 0, i = 1 (lines
\* 106-109).  vec[0] of an empty vector is read outside the vector.
FindStart ==
    /\ fnPc = "findClosestIndex"
    /\ IF fnIn.vec = <<>>
       THEN /\ fnPc' = "undefined"
            /\ UNCHANGED fnOut
       ELSE /\ fnOut' = [minDifference |-> Abs(fnIn.vec[1] - fnIn.target),
                         closestIndex  |-> 0,
                         i             |-> 1]
            /\ fnPc' = "loop"
    /\ UNCHANGED fnIn
    /\ UNCHANGED pipelineVars

\* One iteration of the for loop (lines 109-115).
FindIterate ==
    /\ fnPc = "loop"
    /\ fnOut.i < Len(fnIn.vec)
    /\ LET difference == Abs(fnIn.vec[fnOut.i + 1] - fnIn.target)
       IN  fnOut' = IF Closer(difference, fnOut.minDifference)
                    THEN [minDifference |-> difference,
                          closestIndex  |-> fnOut.i,
                          i             |-> fnOut.i + 1]
                    ELSE [fnOut EXCEPT !.i = @ + 1]
    /\ UNCHANGED <<fnPc, fnIn>>
    /\ UNCHANGED pipelineVars

\* return closestIndex (line 117).
FindReturn ==
    /\ fnPc = "loop"
    /\ fnOut.i >= Len(fnIn.vec)
    /\ fnPc' = "found"
    /\ UNCHANGED <<fnIn, fnOut>>
    /\ UNCHANGED pipelineVars

FindNext == FindStart \/ FindIterate \/ FindReturn

FindSpec == FindInit /\ [][FindNext]_vars

\* C38: for a non-empty vec, findClosestIndex returns an index i with
\* 0 <= i < len(vec) that minimizes |vec[i] - target|, and the smallest such
\* index when several minimize it.
C38_ClosestIndex ==
    (fnPc = "found" /\ fnIn.vec # <<>>) =>
        LET vec  == fnIn.vec
            best == fnOut.closestIndex
        IN  /\ best \in 0..(Len(vec) - 1)
            /\ \A j \in 0..(Len(vec) - 1) :
                  /\ Abs(vec[best + 1] - fnIn.target)
                        <= Abs(vec[j + 1] - fnIn.target)
                  /\ Abs(vec[j + 1] - fnIn.target)
                        = Abs(vec[best + 1] - fnIn.target) => best <= j

\* Target 2 in <<0, 2, 2>>: indices 1 and 2 are equally close and closer
\* than index 0; the smaller one, 1, is returned.
C38_Witness ==
    /\ fnPc = "found"
    /\ fnIn.vec = <<0, 2, 2>>
    /\ fnIn.target = 2
    /\ fnOut.closestIndex = 1

====
